---- MODULE Spec2Model ----
(***************************************************************************)
(* State-machine model of the VEO 3 animation prompter (src/src/App.js):   *)
(* the entity store kept in the App component's state, the prompt          *)
(* composition (generateIndonesianPromptText) and the suggestion and       *)
(* refinement calls to the generation service.                             *)
(*                                                                         *)
(* Representation.  A JavaScript string is a sequence of tokens; '' is     *)
(* <<>>, so "truthy" is "non-empty".  A token is either a literal fragment *)
(* of one of the code's template strings or one word of user text.         *)
(* Character ids, character kinds and dialogue types are only ever         *)
(* compared, never taken apart, and are plain strings.  An object field    *)
(* that was never assigned (undefined) is modelled by the empty value of   *)
(* its type: the code only tests such fields for truthiness.               *)
(***************************************************************************)
EXTENDS Integers, Sequences, FiniteSets, TLC

(***************************************************************************)
(* Dropdown data (src/src/App.js 107-182)                                  *)
(***************************************************************************)
animalAge ==
  << [label |-> "Bayi (0-2 tahun)", value |-> "baby-like, tiny proportions, big eyes, oversized head"],
     [label |-> "Balita (3-5 tahun)", value |-> "toddler-style, playful and chubby, short legs"],
     [label |-> "Anak Kecil (6-8 tahun)", value |-> "childlike, energetic, round face, cheerful"],
     [label |-> "Pra-Remaja (9-12 tahun)", value |-> "youthful, slightly mischievous, small and lanky"],
     [label |-> "Remaja Awal (13-15 tahun)", value |-> "awkward teen, slim build, growing up phase"],
     [label |-> "Remaja (16-18 tahun)", value |-> "confident teenager, casual style, expressive"],
     [label |-> "Dewasa Muda (19-30 tahun)", value |-> "young adult, well-proportioned, stylish"],
     [label |-> "Dewasa (31-50 tahun)", value |-> "mature character, balanced, calm expression"],
     [label |-> "Lansia (50+ tahun)", value |-> "elderly, gray fur, wrinkles, gentle demeanor"],
     [label |-> "Karakter Tua & Bijak (Fabel)", value |-> "ancient creature, long beard, wise eyes, walking cane"] >>

cameraMotionTable ==
  << [en |-> "Static Shot", id |-> "Bidikan Statis"],
     [en |-> "Pan Left", id |-> "Geser Kiri"],
     [en |-> "Pan Right", id |-> "Geser Kanan"],
     [en |-> "Tilt Up", id |-> "Miring ke Atas"],
     [en |-> "Tilt Down", id |-> "Miring ke Bawah"],
     [en |-> "Zoom In", id |-> "Perbesar"],
     [en |-> "Zoom Out", id |-> "Perkecil"],
     [en |-> "Dolly In", id |-> "Gerakan Dolly Masuk"],
     [en |-> "Dolly Out", id |-> "Gerakan Dolly Keluar"],
     [en |-> "Dolly Left", id |-> "Gerakan Dolly Kiri"],
     [en |-> "Dolly Right", id |-> "Gerakan Dolly Kanan"],
     [en |-> "Pedestal Up", id |-> "Angkat Kamera ke Atas"],
     [en |-> "Pedestal Down", id |-> "Turunkan Kamera ke Bawah"],
     [en |-> "Truck Left", id |-> "Gerakan Truk Kiri"],
     [en |-> "Truck Right", id |-> "Gerakan Truk Kanan"],
     [en |-> "Arc Left", id |-> "Busur Kiri"],
     [en |-> "Arc Right", id |-> "Busur Kanan"],
     [en |-> "Whip Pan", id |-> "Geser Cepat"],
     [en |-> "Crash Zoom", id |-> "Perbesar Mendadak"],
     [en |-> "Bullet Time", id |-> "Waktu Peluru"],
     [en |-> "FPV Drone", id |-> "Drone Sudut Pandang Orang Pertama"],
     [en |-> "Aerial Perspective", id |-> "Perspektif Udara"],
     [en |-> "Tracking Shot", id |-> "Bidikan Mengikuti"],
     [en |-> "360 Orbit", id |-> "Orbit 360 Derajat"],
     [en |-> "Crane Up", id |-> "Angkat Derek ke Atas"],
     [en |-> "Crane Down", id |-> "Turunkan Derek ke Bawah"],
     [en |-> "Dolly Zoom", id |-> "Efek Vertigo"],
     [en |-> "Robo Arm", id |-> "Lengan Robot"],
     [en |-> "Super Dolly In", id |-> "Gerakan Dolly Sangat Dekat"],
     [en |-> "Focus Change", id |-> "Perubahan Fokus"],
     [en |-> "Through Object", id |-> "Melalui Objek"],
     [en |-> "Lazy Susan", id |-> "Putaran Lambat"],
     [en |-> "Action Run", id |-> "Lari Aksi"],
     [en |-> "Handheld", id |-> "Genggam Tangan"],
     [en |-> "Dutch Angle", id |-> "Sudut Belanda"],
     [en |-> "Car Grip", id |-> "Genggam Mobil"],
     [en |-> "Hyperlapse", id |-> "Hiperlapse"],
     [en |-> "Low Shutter", id |-> "Rana Lambat"],
     [en |-> "Fisheye", id |-> "Mata Ikan"] >>

expressionOptions == {"Happy", "Angry", "Sad"}

(***************************************************************************)
(* Strings                                                                 *)
(***************************************************************************)
Min(S) == CHOOSE m \in S : \A n \in S : m <= n

\* String.prototype.toLowerCase on one token: the words of the model's
\* vocabulary that carry an upper-case letter.
LowerTok(t) ==
  CASE t = "Female" -> "female"
    [] t = "Male" -> "male"
    [] t = "Fair" -> "fair"
    [] t = "Slim" -> "slim"
    [] t = "Kaos Biru" -> "kaos biru"
    [] t = "Bekas Luka" -> "bekas luka"
    [] t = "25 Tahun" -> "25 tahun"
    [] t = "Bear" -> "bear"
    [] t = "Cat" -> "cat"
    [] t = "Chubby Round" -> "chubby round"
    [] t = "Brown" -> "brown"
    [] t = "Fluffy" -> "fluffy"
    [] t = "Topi" -> "topi"
    [] t = "Naga Bersisik" -> "naga bersisik"
    [] t = "Berlari" -> "berlari"
    [] t = "Melompat" -> "melompat"
    [] t = "Happy" -> "happy"
    [] t = "Hutan" -> "hutan"
    [] t = "Morning" -> "morning"
    [] t = "Soft lighting" -> "soft lighting"
    [] t = "2D" -> "2d"
    [] t = "Anime" -> "anime"
    [] t = "Cozy" -> "cozy"
    [] t = "Piano" -> "piano"
    [] OTHER -> t

toLowerCase(s) == [i \in 1..Len(s) |-> LowerTok(s[i])]

IsSpace(t) == t \in {" ", "\n"}

\* String.prototype.trim: drop the white space at both ends.
RECURSIVE TrimStart(_)
TrimStart(s) == IF s # <<>> /\ IsSpace(Head(s)) THEN TrimStart(Tail(s)) ELSE s

RECURSIVE TrimEnd(_)
TrimEnd(s) ==
  IF s # <<>> /\ IsSpace(s[Len(s)]) THEN TrimEnd(SubSeq(s, 1, Len(s) - 1)) ELSE s

trim(s) == TrimEnd(TrimStart(s))

\* s.replace(/^"|"$/g, ''): one quote at the very start and one at the very
\* end are removed, each on its own.
StripQuotes(s) ==
  LET a == IF s # <<>> /\ Head(s) = "\"" THEN Tail(s) ELSE s
  IN  IF a # <<>> /\ a[Len(a)] = "\"" THEN SubSeq(a, 1, Len(a) - 1) ELSE a

\* String.prototype.substring(0, n)
substring0(s, n) == SubSeq(s, 1, IF Len(s) < n THEN Len(s) ELSE n)

RECURSIVE Flatten(_)
Flatten(ss) == IF ss = <<>> THEN <<>> ELSE Head(ss) \o Flatten(Tail(ss))

\* Array.prototype.join(sep) on an array of strings
join(ss, sep) ==
  IF ss = <<>> THEN <<>>
  ELSE Head(ss) \o Flatten([i \in 1..(Len(ss) - 1) |-> sep \o ss[i + 1]])

\* Array.prototype.find on savedCharacters by id: <<>> is undefined, <<c>> the
\* first character with that id.
find(chars, id) ==
  LET I == {i \in 1..Len(chars) : chars[i].id = id}
  IN  IF I = {} THEN <<>> ELSE <<chars[Min(I)]>>

\* Reading .name: a TypeError when the object is undefined.
TypeError == "#TypeError#"
nameOf(m) == IF m = <<>> THEN <<TypeError>> ELSE m[1].name

(***************************************************************************)
(* Bounds of the model, and the places where the inputs are drawn from     *)
(***************************************************************************)
MaxCharacters == 2
MaxClock == 2
MaxLines == 1
MaxSpoken == 1
MaxRequests == 2
\* errorText.substring(0, 100)
DetailLength == 100

(***************************************************************************)
(* Prompt composition: generateIndonesianPromptText (src/src/App.js        *)
(* 638-767).  S is the store the function reads, a2form the form state     *)
(* animal2Details it also reads.  An element of the prompt array carries,  *)
(* besides its text, the step that pushed it and the position of the       *)
(* input it was built from; the two are dropped when the array is joined.  *)
(***************************************************************************)
Entry(step, src, text) == [step |-> step, src |-> src, text |-> text]

clause(prefix, value) == IF value # <<>> THEN <<prefix>> \o toLowerCase(value) ELSE <<>>

\* A slip the callout would not survive: the filter on isMain left out.
mainCharactersAll(S) ==
  LET names == [i \in 1..Len(S.characterActions) |->
                  LET m == find(S.savedCharacters, S.characterActions[i].charId)
                  IN  IF m = <<>> THEN <<>> ELSE m[1].name]
  IN  SelectSeq(names, LAMBDA n : n # <<>>)

\* characterActions.filter(ca => ca.isMain).map(ca => find(...)?.name).filter(Boolean)
mainCharacters(S) ==
  LET main == SelectSeq(S.characterActions, LAMBDA ca : ca.isMain)
      names == [i \in 1..Len(main) |->
                  LET m == find(S.savedCharacters, main[i].charId)
                  IN  IF m = <<>> THEN <<>> ELSE m[1].name]
  IN  SelectSeq(names, LAMBDA n : n # <<>>)

calloutStep(S) ==
  IF Len(mainCharacters(S)) > 0
  THEN <<Entry("callout", <<>>,
               <<"Karakter utama adalah ">> \o join(mainCharacters(S), <<" dan ">>) \o <<".">>)>>
  ELSE <<>>

\* A slip the order of the clauses would not survive: the skin color before
\* the age.
humanDescSkinFirst(d) ==
  <<"manusia ">> \o toLowerCase(d.gender)
    \o clause(" dengan kulit ", d.skinColor)
    \o clause(" berusia ", d.age)
    \o clause(" berbadan ", d.bodyTypePosture)
    \o clause(" mengenakan ", d.clothingAccessories)
    \o clause(", ", d.additionalDetail)

humanDesc(d) ==
  <<"manusia ">> \o toLowerCase(d.gender)
    \o clause(" berusia ", d.age)
    \o clause(" dengan kulit ", d.skinColor)
    \o clause(" berbadan ", d.bodyTypePosture)
    \o clause(" mengenakan ", d.clothingAccessories)
    \o clause(", ", d.additionalDetail)

animal4Desc(d) ==
  <<"hewan ">> \o toLowerCase(d.animalType) \o clause(" mengenakan ", d.clothingAccessories)

\* The age is looked up with the age of the form state animal2Details, not
\* with char.details.age (line 667).
animal2Desc(d, a2form) ==
  LET selectedAnimalAge ==
        SelectSeq(animalAge, LAMBDA opt : <<opt.value>> = a2form.age)
  IN  <<"hewan ">> \o toLowerCase(d.animalType) \o <<" berjalan dengan dua kaki">>
        \o clause(" berjenis kelamin ", d.gender)
        \o (IF selectedAnimalAge # <<>>
            THEN <<" (", selectedAnimalAge[1].value, ")">> ELSE <<>>)
        \o clause(" berbadan ", d.bodyShapePosture)
        \o clause(" dengan bulu ", d.furColors)
        \o clause(" yang ", d.furCharacteristic)
        \o clause(" mengenakan ", d.clothingAccessories)

fantasyDesc(d) == <<"makhluk fantasi. ">> \o toLowerCase(d.description)

charDesc(char, a2form) ==
  char.name \o <<" adalah ", IF char.type = "human" THEN "seorang" ELSE "seekor", " ">>
    \o (CASE char.type = "human" -> humanDesc(char.details)
          [] char.type = "animal4" -> animal4Desc(char.details)
          [] char.type = "animal2" -> animal2Desc(char.details, a2form)
          [] char.type = "fantasy" -> fantasyDesc(char.details)
          [] OTHER -> <<>>)
    \o <<".">>

introStep(S, a2form) ==
  [i \in 1..Len(S.savedCharacters) |->
     Entry("intro", <<i>>, charDesc(S.savedCharacters[i], a2form))]

\* expressions[charId]: undefined when the object has no such key
expressionOf(S, charId) ==
  IF charId \in DOMAIN S.expressions THEN S.expressions[charId] ELSE <<>>

\* A slip the tag of a dialogue line would not survive: every type but the
\* answer tagged as a question.
lineEntriesQuestionUnlessAnswer(k, ca, character) ==
  LET kept == SelectSeq([j \in 1..Len(ca.dialogueLines) |-> j],
                        LAMBDA j : ca.dialogueLines[j].sentence # <<>>)
  IN  [n \in 1..Len(kept) |->
         LET line == ca.dialogueLines[kept[n]]
         IN  Entry("line", <<k, kept[n]>>,
                   nameOf(character)
                     \o <<" ", IF line.type # "Give an answer" THEN "bertanya" ELSE "menjawab",
                          ": \"">>
                     \o line.sentence \o <<"\"">>)]

lineEntries(k, ca, character) ==
  LET kept == SelectSeq([j \in 1..Len(ca.dialogueLines) |-> j],
                        LAMBDA j : ca.dialogueLines[j].sentence # <<>>)
  IN  [n \in 1..Len(kept) |->
         LET line == ca.dialogueLines[kept[n]]
         IN  Entry("line", <<k, kept[n]>>,
                   nameOf(character)
                     \o <<" ", IF line.type = "Ask a question" THEN "bertanya" ELSE "menjawab",
                          ": \"">>
                     \o line.sentence \o <<"\"">>)]

\* A slip the missing characters would not survive: the test of character
\* left out.
actionEntriesUnguarded(S, k) ==
  LET ca == S.characterActions[k]
      character == find(S.savedCharacters, ca.charId)
  IN  <<Entry("action", <<k>>,
              nameOf(character) \o <<" sedang ">> \o toLowerCase(ca.action)
                \o clause(" dengan ekspresi ", expressionOf(S, ca.charId))
                \o <<".">>)>>
        \o lineEntries(k, ca, character)

actionEntries(S, k) ==
  LET ca == S.characterActions[k]
      character == find(S.savedCharacters, ca.charId)
  IN  IF character # <<>>
      THEN <<Entry("action", <<k>>,
                   nameOf(character) \o <<" sedang ">> \o toLowerCase(ca.action)
                     \o clause(" dengan ekspresi ", expressionOf(S, ca.charId))
                     \o <<".">>)>>
             \o lineEntries(k, ca, character)
      ELSE <<>>

actionStep(S) == Flatten([k \in 1..Len(S.characterActions) |-> actionEntries(S, k)])

locationStep(S) ==
  IF S.location # <<>>
  THEN <<Entry("location", <<>>,
               <<"Adegan berlangsung di ">> \o toLowerCase(S.location) \o <<".">>)>>
  ELSE <<>>

timeOfDayStep(S) ==
  IF S.timeOfDay # <<>>
  THEN <<Entry("timeOfDay", <<>>,
               <<"Waktu kejadian adalah ">> \o toLowerCase(S.timeOfDay) \o <<".">>)>>
  ELSE <<>>

cameraMotionStep(S) ==
  LET motion == SelectSeq(cameraMotionTable, LAMBDA m : m.en = S.cameraMotion)
  IN  IF S.cameraMotion # "" /\ motion # <<>>
      THEN <<Entry("cameraMotion", <<>>, <<"Gerakan kamera: ", motion[1].id, ".">>)>>
      ELSE <<>>

lightingStep(S) ==
  IF S.lighting # <<>>
  THEN <<Entry("lighting", <<>>, <<"Pencahayaan: ">> \o toLowerCase(S.lighting) \o <<".">>)>>
  ELSE <<>>

visualStyleStep(S) ==
  IF Len(S.selectedVisualStyles) > 0
  THEN <<Entry("visualStyles", <<>>,
               <<"Gaya visual video adalah ">>
                 \o join([i \in 1..Len(S.selectedVisualStyles) |->
                            <<LowerTok(S.selectedVisualStyles[i])>>], <<", ">>)
                 \o <<".">>)>>
  ELSE <<>>

videoMoodStep(S) ==
  IF S.videoMood # <<>>
  THEN <<Entry("videoMood", <<>>, <<"Suasana video: ">> \o toLowerCase(S.videoMood) \o <<".">>)>>
  ELSE <<>>

soundMusicStep(S) ==
  IF S.soundMusic # <<>>
  THEN <<Entry("soundMusic", <<>>,
               <<"Latar belakang musik/suara: ">> \o toLowerCase(S.soundMusic) \o <<".">>)>>
  ELSE <<>>

\* A slip the order of the scene would not survive: the lighting before the
\* camera motion.
sceneStepLightingFirst(S) ==
  locationStep(S) \o timeOfDayStep(S) \o lightingStep(S) \o cameraMotionStep(S)
    \o visualStyleStep(S) \o videoMoodStep(S) \o soundMusicStep(S)

sceneStep(S) ==
  locationStep(S) \o timeOfDayStep(S) \o cameraMotionStep(S) \o lightingStep(S)
    \o visualStyleStep(S) \o videoMoodStep(S) \o soundMusicStep(S)

targetClause(S, sd) ==
  LET targetChar == find(S.savedCharacters, sd.targetCharId)
  IN  IF targetChar # <<>> THEN <<" kepada ">> \o nameOf(targetChar) ELSE <<>>

dialogueText(S, sd, speaker) ==
  nameOf(speaker) \o <<" ">>
    \o (CASE sd.type = "Ask a question" ->
               <<"bertanya">> \o targetClause(S, sd) \o <<": \"">> \o sd.sentence \o <<"\"">>
          [] sd.type = "Give an answer" ->
               <<"menjawab">> \o targetClause(S, sd) \o <<": \"">> \o sd.sentence \o <<"\"">>
          [] sd.type = "Berbicara ke Audiens" ->
               <<"berbicara kepada audiens: \"">> \o sd.sentence \o <<"\"">>
          [] OTHER -> <<>>)

\* A slip the spoken dialogue would not survive: the test of sd.sentence
\* left out.
spokenEntriesWithEmpty(S, k) ==
  LET sd == S.spokenDialogue[k]
      speaker == find(S.savedCharacters, sd.charId)
  IN  IF speaker # <<>>
      THEN <<Entry("spoken", <<k>>, dialogueText(S, sd, speaker))>>
      ELSE <<>>

spokenEntries(S, k) ==
  LET sd == S.spokenDialogue[k]
      speaker == find(S.savedCharacters, sd.charId)
  IN  IF speaker # <<>> /\ sd.sentence # <<>>
      THEN <<Entry("spoken", <<k>>, dialogueText(S, sd, speaker))>>
      ELSE <<>>

spokenStep(S) == Flatten([k \in 1..Len(S.spokenDialogue) |-> spokenEntries(S, k)])

additionalStep(S) ==
  IF S.additionalDetails # <<>>
  THEN <<Entry("additional", <<>>, <<"Detail tambahan: ">> \o S.additionalDetails \o <<".">>)>>
  ELSE <<>>

\* The prompt array at line 766, before it is joined.
promptArray(S, a2form) ==
  (IF Len(S.savedCharacters) > 0 THEN calloutStep(S) \o introStep(S, a2form) ELSE <<>>)
    \o actionStep(S) \o sceneStep(S) \o spokenStep(S) \o additionalStep(S)

\* An exception thrown while the array is built leaves the function before
\* setIndonesianPrompt.
raises(S, a2form) ==
  LET prompt == promptArray(S, a2form)
  IN  \E i \in 1..Len(prompt) : \E j \in 1..Len(prompt[i].text) : prompt[i].text[j] = TypeError

\* prompt.join(' ')
generateIndonesianPromptText(S, a2form) ==
  LET prompt == promptArray(S, a2form)
  IN  join([i \in 1..Len(prompt) |-> prompt[i].text], <<" ">>)

(***************************************************************************)
(* State of the App component (src/src/App.js 188-220).  The draft         *)
(* collection behind Firestore (drafts, currentDraftId, isSaving,          *)
(* isDeleting) is an external collaborator and is not modelled.            *)
(***************************************************************************)
VARIABLES
  characterName, characterType, humanDetails, animal4Details, animal2Details,
  fantasyDetails,
  savedCharacters, selectedCharactersForActions, characterActions, expressions,
  location, timeOfDay, cameraMotion, lighting, selectedVisualStyles, videoMood,
  soundMusic, spokenDialogue, additionalDetails,
  indonesianPrompt, englishPrompt, isLoadingPrompt, showModal, modalMessage,
  isLoadingActionSuggestion, isLoadingDialogueSuggestion,
  dialogueObjects,   \* the heap of the objects held in the spokenDialogue arrays
  pending,           \* the service calls in flight, each with what its closure holds
  issued,            \* how many service calls were started so far
  resolved,          \* the calls that have returned, in the order they returned
  now                \* Date.now()

formVars == <<characterName, characterType, humanDetails, animal4Details,
              animal2Details, fantasyDetails>>
actionVars == <<selectedCharactersForActions, characterActions, expressions>>
sceneVars == <<location, timeOfDay, cameraMotion, lighting, selectedVisualStyles,
               videoMood, soundMusic, additionalDetails>>
spokenVars == <<spokenDialogue, dialogueObjects>>
outputVars == <<indonesianPrompt, englishPrompt, isLoadingPrompt>>
modalVars == <<showModal, modalMessage>>
loadingVars == <<isLoadingActionSuggestion, isLoadingDialogueSuggestion>>
serviceVars == <<pending, issued, resolved>>

vars == <<formVars, savedCharacters, actionVars, sceneVars, spokenVars, outputVars,
          modalVars, loadingVars, serviceVars, now>>

emptyHuman ==
  [gender |-> <<>>, faceShape |-> <<>>, skinColor |-> <<>>, bodyTypePosture |-> <<>>,
   age |-> <<>>, height |-> <<>>, clothingAccessories |-> <<>>, additionalDetail |-> <<>>]
emptyAnimal4 == [animalType |-> <<>>, clothingAccessories |-> <<>>]
emptyAnimal2 ==
  [animalType |-> <<>>, gender |-> <<>>, age |-> <<>>, bodyShapePosture |-> <<>>,
   noseShape |-> <<>>, faceFeature |-> <<>>, earFeature |-> <<>>,
   furCharacteristic |-> <<>>, furColors |-> <<>>, clothingAccessories |-> <<>>]
emptyMap == [k \in {} |-> TRUE]

\* Entry objects are named by numbers.  An object that neither the current
\* array nor the closure of a call in flight refers to is garbage.
refsOf(array) == {array[i] : i \in 1..Len(array)}
liveObjects(array, inFlight, heap) ==
  [r \in (refsOf(array) \cup UNION {refsOf(q.spokenDialogue) : q \in inFlight})
          \cap DOMAIN heap |-> heap[r]]
newRef(heap) == Min({r \in 1..(Cardinality(DOMAIN heap) + 1) : r \notin DOMAIN heap})

\* The objects of the current spokenDialogue array, in order.
spokenEntriesOf(array, heap) == [i \in 1..Len(array) |-> heap[array[i]]]

\* What generateIndonesianPromptText reads of the store.
Store ==
  [savedCharacters |-> savedCharacters,
   characterActions |-> characterActions,
   expressions |-> expressions,
   location |-> location, timeOfDay |-> timeOfDay, cameraMotion |-> cameraMotion,
   lighting |-> lighting, selectedVisualStyles |-> selectedVisualStyles,
   videoMood |-> videoMood, soundMusic |-> soundMusic,
   spokenDialogue |-> spokenEntriesOf(spokenDialogue, dialogueObjects),
   additionalDetails |-> additionalDetails]

EmptyForm ==
  /\ characterName = <<>> /\ characterType = ""
  /\ humanDetails = emptyHuman /\ animal4Details = emptyAnimal4
  /\ animal2Details = emptyAnimal2 /\ fantasyDetails = <<>>

EmptyScene ==
  /\ location = <<>> /\ timeOfDay = <<>> /\ cameraMotion = "" /\ lighting = <<>>
  /\ selectedVisualStyles = <<>> /\ videoMood = <<>> /\ soundMusic = <<>>
  /\ additionalDetails = <<>>

Idle ==
  /\ indonesianPrompt = <<>> /\ englishPrompt = <<>> /\ isLoadingPrompt = FALSE
  /\ showModal = FALSE /\ modalMessage = <<>>
  /\ isLoadingActionSuggestion = emptyMap /\ isLoadingDialogueSuggestion = emptyMap
  /\ pending = {} /\ issued = 0 /\ resolved = <<>>

\* The state after the component is constructed (the useState initial values).
Init ==
  /\ EmptyForm
  /\ savedCharacters = <<>>
  /\ selectedCharactersForActions = <<>> /\ characterActions = <<>>
  /\ expressions = emptyMap
  /\ EmptyScene
  /\ spokenDialogue = <<>> /\ dialogueObjects = emptyMap
  /\ Idle
  /\ now = 1

(***************************************************************************)
(* Modal (249-252, 1654)                                                   *)
(***************************************************************************)
showCustomModal(message) ==
  /\ modalMessage' = message
  /\ showModal' = TRUE

closeModal ==
  /\ showModal
  /\ showModal' = FALSE
  /\ UNCHANGED <<formVars, savedCharacters, actionVars, sceneVars, spokenVars,
                 outputVars, modalMessage, loadingVars, serviceVars, now>>

\* Time passes.
Tick ==
  /\ now < MaxClock
  /\ now' = now + 1
  /\ UNCHANGED <<formVars, savedCharacters, actionVars, sceneVars, spokenVars,
                 outputVars, modalVars, loadingVars, serviceVars>>

(***************************************************************************)
(* The character form (865, 879, 896-1131)                                 *)
(***************************************************************************)
formFrame ==
  UNCHANGED <<savedCharacters, actionVars, sceneVars, spokenVars, outputVars,
              modalVars, loadingVars, serviceVars, now>>

setCharacterName(value) ==
  /\ characterName' = value
  /\ UNCHANGED <<characterType, humanDetails, animal4Details, animal2Details,
                 fantasyDetails>>
  /\ formFrame

setCharacterType(value) ==
  /\ characterType' = value
  /\ UNCHANGED <<characterName, humanDetails, animal4Details, animal2Details,
                 fantasyDetails>>
  /\ formFrame

\* The inputs of a kind are rendered only while that kind is selected.
setHumanDetails(field, value) ==
  /\ characterType = "human"
  /\ humanDetails' = [humanDetails EXCEPT ![field] = value]
  /\ UNCHANGED <<characterName, characterType, animal4Details, animal2Details,
                 fantasyDetails>>
  /\ formFrame

setAnimal4Details(field, value) ==
  /\ characterType = "animal4"
  /\ animal4Details' = [animal4Details EXCEPT ![field] = value]
  /\ UNCHANGED <<characterName, characterType, humanDetails, animal2Details,
                 fantasyDetails>>
  /\ formFrame

setAnimal2Details(field, value) ==
  /\ characterType = "animal2"
  /\ animal2Details' = [animal2Details EXCEPT ![field] = value]
  /\ UNCHANGED <<characterName, characterType, humanDetails, animal4Details,
                 fantasyDetails>>
  /\ formFrame

setFantasyDetails(value) ==
  /\ characterType = "fantasy"
  /\ fantasyDetails' = value
  /\ UNCHANGED <<characterName, characterType, humanDetails, animal4Details,
                 animal2Details>>
  /\ formFrame

\* Date.now().toString()
newId(time) == ToString(time)

newCharacter ==
  [id |-> newId(now), name |-> characterName, type |-> characterType,
   details |-> CASE characterType = "human" -> humanDetails
                 [] characterType = "animal4" -> animal4Details
                 [] characterType = "animal2" -> animal2Details
                 [] characterType = "fantasy" -> [description |-> fantasyDetails]
                 [] OTHER -> [description |-> <<>>]]

clearForm ==
  /\ characterName' = <<>> /\ characterType' = ""
  /\ humanDetails' = emptyHuman /\ animal4Details' = emptyAnimal4
  /\ animal2Details' = emptyAnimal2 /\ fantasyDetails' = <<>>

\* A slip the validation would not survive: the test of the type left out.
handleSaveCharacterUntyped ==
  /\ Len(savedCharacters) < MaxCharacters
  /\ IF characterName = <<>>
     THEN /\ showCustomModal(<<"Character Name is required to save a character.">>)
          /\ UNCHANGED <<formVars, savedCharacters>>
     ELSE /\ savedCharacters' = Append(savedCharacters, newCharacter)
          /\ clearForm
          /\ showCustomModal(<<"Character \"">> \o characterName \o <<"\" saved!">>)
  /\ UNCHANGED <<actionVars, sceneVars, spokenVars, outputVars, loadingVars,
                 serviceVars, now>>

handleSaveCharacter ==
  /\ Len(savedCharacters) < MaxCharacters
  /\ IF characterName = <<>>
     THEN /\ showCustomModal(<<"Character Name is required to save a character.">>)
          /\ UNCHANGED <<formVars, savedCharacters>>
     ELSE IF characterType \notin {"human", "animal4", "animal2", "fantasy"}
     THEN /\ showCustomModal(<<"Please select a character type.">>)
          /\ UNCHANGED <<formVars, savedCharacters>>
     ELSE /\ savedCharacters' = Append(savedCharacters, newCharacter)
          /\ clearForm
          /\ showCustomModal(<<"Character \"">> \o characterName \o <<"\" saved!">>)
  /\ UNCHANGED <<actionVars, sceneVars, spokenVars, outputVars, loadingVars,
                 serviceVars, now>>

(***************************************************************************)
(* resetForm (354-378): the loading flags and the calls in flight are not  *)
(* part of what it resets.                                                 *)
(***************************************************************************)
\* A slip the reset would not survive: the refined prompt left behind.
resetFormKeepingEnglishPrompt ==
  /\ clearForm
  /\ savedCharacters' = <<>>
  /\ selectedCharactersForActions' = <<>>
  /\ characterActions' = <<>>
  /\ expressions' = emptyMap
  /\ location' = <<>> /\ timeOfDay' = <<>> /\ cameraMotion' = "" /\ lighting' = <<>>
  /\ selectedVisualStyles' = <<>> /\ videoMood' = <<>> /\ soundMusic' = <<>>
  /\ spokenDialogue' = <<>>
  /\ additionalDetails' = <<>>
  /\ indonesianPrompt' = <<>>
  /\ showCustomModal(<<"Form reset successfully!">>)
  /\ dialogueObjects' = liveObjects(<<>>, pending, dialogueObjects)
  /\ UNCHANGED <<englishPrompt, isLoadingPrompt, loadingVars, serviceVars, now>>

resetForm ==
  /\ clearForm
  /\ savedCharacters' = <<>>
  /\ selectedCharactersForActions' = <<>>
  /\ characterActions' = <<>>
  /\ expressions' = emptyMap
  /\ location' = <<>> /\ timeOfDay' = <<>> /\ cameraMotion' = "" /\ lighting' = <<>>
  /\ selectedVisualStyles' = <<>> /\ videoMood' = <<>> /\ soundMusic' = <<>>
  /\ spokenDialogue' = <<>>
  /\ additionalDetails' = <<>>
  /\ indonesianPrompt' = <<>>
  /\ englishPrompt' = <<>>
  /\ showCustomModal(<<"Form reset successfully!">>)
  /\ dialogueObjects' = liveObjects(<<>>, pending, dialogueObjects)
  /\ UNCHANGED <<isLoadingPrompt, loadingVars, serviceVars, now>>

(***************************************************************************)
(* The "Generate Indonesian Prompt" button (1585)                          *)
(***************************************************************************)
generatePrompt ==
  /\ ~raises(Store, animal2Details)
  /\ indonesianPrompt' = generateIndonesianPromptText(Store, animal2Details)
  /\ UNCHANGED <<formVars, savedCharacters, actionVars, sceneVars, spokenVars,
                 englishPrompt, isLoadingPrompt, modalVars, loadingVars, serviceVars,
                 now>>

(***************************************************************************)
(* Character actions (542-609, 1175-1183, 1194-1291, 1314).  The handlers  *)
(* pass an updater to setCharacterActions; the operators below are those   *)
(* updaters, applied to the state at the time the update is processed.     *)
(***************************************************************************)
idsOf(chars) == {chars[i].id : i \in 1..Len(chars)}

\* prevActions.findIndex(action => action.charId === charId); 0 for -1
findIndex(prevActions, charId) ==
  LET I == {i \in 1..Len(prevActions) : prevActions[i].charId = charId}
  IN  IF I = {} THEN 0 ELSE Min(I)

newLine == [type |-> "", sentence |-> <<>>, targetCharId |-> ""]

\* A slip the one entry per character would not survive: the entry added
\* without looking for the one that is there.
characterActionChangeAppending(prevActions, charId, field, value) ==
  Append(prevActions,
         [[charId |-> charId, action |-> <<>>, isMain |-> FALSE, dialogueLines |-> <<>>]
            EXCEPT ![field] = value])

\* A slip the other fields would not survive: the entry that is there
\* replaced by a default entry with the field set.
characterActionChangeResetting(prevActions, charId, field, value) ==
  LET existingActionIndex == findIndex(prevActions, charId)
      entry == [[charId |-> charId, action |-> <<>>, isMain |-> FALSE,
                 dialogueLines |-> <<>>] EXCEPT ![field] = value]
  IN  IF existingActionIndex > 0
      THEN [prevActions EXCEPT ![existingActionIndex] = entry]
      ELSE Append(prevActions, entry)

characterActionChange(prevActions, charId, field, value) ==
  LET existingActionIndex == findIndex(prevActions, charId)
  IN  IF existingActionIndex > 0
      THEN [prevActions EXCEPT ![existingActionIndex][field] = value]
      ELSE Append(prevActions,
                  [[charId |-> charId, action |-> <<>>, isMain |-> FALSE,
                    dialogueLines |-> <<>>] EXCEPT ![field] = value])

toggleMainCharacter(prevActions, charId) ==
  LET existingActionIndex == findIndex(prevActions, charId)
  IN  IF existingActionIndex > 0
      THEN [prevActions EXCEPT ![existingActionIndex].isMain = ~@]
      ELSE Append(prevActions,
                  [charId |-> charId, action |-> <<>>, isMain |-> TRUE,
                   dialogueLines |-> <<>>])

addDialogueLine(prevActions, charId) ==
  LET existingActionIndex == findIndex(prevActions, charId)
  IN  IF existingActionIndex > 0
      THEN [prevActions EXCEPT ![existingActionIndex].dialogueLines = Append(@, newLine)]
      ELSE Append(prevActions,
                  [charId |-> charId, action |-> <<>>, isMain |-> FALSE,
                   dialogueLines |-> <<newLine>>])

dialogueLineChange(prevActions, charId, lineIndex, field, value) ==
  LET existingActionIndex == findIndex(prevActions, charId)
  IN  IF existingActionIndex > 0
      THEN [prevActions EXCEPT ![existingActionIndex].dialogueLines[lineIndex][field] = value]
      ELSE prevActions

\* splice(lineIndex, 1)
splice(s, index) == SubSeq(s, 1, index - 1) \o SubSeq(s, index + 1, Len(s))

removeDialogueLine(prevActions, charId, lineIndex) ==
  LET existingActionIndex == findIndex(prevActions, charId)
  IN  IF existingActionIndex > 0
      THEN [prevActions EXCEPT ![existingActionIndex].dialogueLines = splice(@, lineIndex)]
      ELSE prevActions

actionFrame ==
  UNCHANGED <<formVars, savedCharacters, sceneVars, spokenVars, outputVars, modalVars,
              loadingVars, serviceVars, now>>

\* The check box of a saved character (1175-1183).
selectCharacterForActions(charId) ==
  /\ charId \in idsOf(savedCharacters)
  /\ IF charId \notin {selectedCharactersForActions[i] :
                         i \in 1..Len(selectedCharactersForActions)}
     THEN /\ selectedCharactersForActions' = Append(selectedCharactersForActions, charId)
          /\ UNCHANGED characterActions
     ELSE /\ selectedCharactersForActions' =
               SelectSeq(selectedCharactersForActions, LAMBDA id : id # charId)
          /\ characterActions' = SelectSeq(characterActions, LAMBDA a : a.charId # charId)
  /\ UNCHANGED expressions
  /\ actionFrame

\* The panel of a character is rendered for the selected ids that name a
\* saved character (1194-1198).
HasPanel(charId) ==
  /\ charId \in {selectedCharactersForActions[i] :
                   i \in 1..Len(selectedCharactersForActions)}
  /\ charId \in idsOf(savedCharacters)

\* What the panel shows for a character without an entry (1196).
currentAction(charId) ==
  IF findIndex(characterActions, charId) > 0
  THEN characterActions[findIndex(characterActions, charId)]
  ELSE [charId |-> charId, action |-> <<>>, isMain |-> FALSE, dialogueLines |-> <<>>]

handleCharacterActionChange(charId, field, value) ==
  /\ HasPanel(charId)
  /\ characterActions' = characterActionChange(characterActions, charId, field, value)
  /\ UNCHANGED <<selectedCharactersForActions, expressions>>
  /\ actionFrame

handleToggleMainCharacter(charId) ==
  /\ HasPanel(charId)
  /\ characterActions' = toggleMainCharacter(characterActions, charId)
  /\ UNCHANGED <<selectedCharactersForActions, expressions>>
  /\ actionFrame

handleAddDialogueLine(charId) ==
  /\ HasPanel(charId)
  /\ Len(currentAction(charId).dialogueLines) < MaxLines
  /\ characterActions' = addDialogueLine(characterActions, charId)
  /\ UNCHANGED <<selectedCharactersForActions, expressions>>
  /\ actionFrame

\* The target select is rendered for questions and answers and offers the
\* other characters (1259-1269).
handleDialogueLineChange(charId, lineIndex, field, value) ==
  /\ HasPanel(charId)
  /\ lineIndex \in 1..Len(currentAction(charId).dialogueLines)
  /\ field = "targetCharId" =>
       /\ currentAction(charId).dialogueLines[lineIndex].type
            \in {"Ask a question", "Give an answer"}
       /\ value \in {""} \cup (idsOf(savedCharacters) \ {charId})
  /\ characterActions' = dialogueLineChange(characterActions, charId, lineIndex, field, value)
  /\ UNCHANGED <<selectedCharactersForActions, expressions>>
  /\ actionFrame

handleRemoveDialogueLine(charId, lineIndex) ==
  /\ HasPanel(charId)
  /\ lineIndex \in 1..Len(currentAction(charId).dialogueLines)
  /\ characterActions' = removeDialogueLine(characterActions, charId, lineIndex)
  /\ UNCHANGED <<selectedCharactersForActions, expressions>>
  /\ actionFrame

\* setExpressions({ ...expressions, [char.id]: value }) (1314)
setExpression(charId, value) ==
  /\ charId \in idsOf(savedCharacters)
  /\ expressions' = [k \in DOMAIN expressions \cup {charId} |->
                       IF k = charId THEN value ELSE expressions[k]]
  /\ UNCHANGED <<selectedCharactersForActions, characterActions>>
  /\ actionFrame

(***************************************************************************)
(* Scene attributes (629-635, 1334-1576)                                   *)
(***************************************************************************)
sceneFrame ==
  UNCHANGED <<formVars, savedCharacters, actionVars, spokenVars, outputVars, modalVars,
              loadingVars, serviceVars, now>>

setLocation(value) ==
  /\ location' = value
  /\ UNCHANGED <<timeOfDay, cameraMotion, lighting, selectedVisualStyles, videoMood,
                 soundMusic, additionalDetails>>
  /\ sceneFrame

setTimeOfDay(value) ==
  /\ timeOfDay' = value
  /\ UNCHANGED <<location, cameraMotion, lighting, selectedVisualStyles, videoMood,
                 soundMusic, additionalDetails>>
  /\ sceneFrame

setCameraMotion(value) ==
  /\ cameraMotion' = value
  /\ UNCHANGED <<location, timeOfDay, lighting, selectedVisualStyles, videoMood,
                 soundMusic, additionalDetails>>
  /\ sceneFrame

setLighting(value) ==
  /\ lighting' = value
  /\ UNCHANGED <<location, timeOfDay, cameraMotion, selectedVisualStyles, videoMood,
                 soundMusic, additionalDetails>>
  /\ sceneFrame

\* A slip the membership would not survive: the style added without looking
\* for it in the array.
visualStyleChangeAppending(prevStyles, style) == Append(prevStyles, style)

visualStyleChange(prevStyles, style) ==
  IF \E i \in 1..Len(prevStyles) : prevStyles[i] = style
  THEN SelectSeq(prevStyles, LAMBDA s : s # style)
  ELSE Append(prevStyles, style)

handleVisualStyleChange(style) ==
  /\ selectedVisualStyles' = visualStyleChange(selectedVisualStyles, style)
  /\ UNCHANGED <<location, timeOfDay, cameraMotion, lighting, videoMood, soundMusic,
                 additionalDetails>>
  /\ sceneFrame

setVideoMood(value) ==
  /\ videoMood' = value
  /\ UNCHANGED <<location, timeOfDay, cameraMotion, lighting, selectedVisualStyles,
                 soundMusic, additionalDetails>>
  /\ sceneFrame

setSoundMusic(value) ==
  /\ soundMusic' = value
  /\ UNCHANGED <<location, timeOfDay, cameraMotion, lighting, selectedVisualStyles,
                 videoMood, additionalDetails>>
  /\ sceneFrame

setAdditionalDetails(value) ==
  /\ additionalDetails' = value
  /\ UNCHANGED <<location, timeOfDay, cameraMotion, lighting, selectedVisualStyles,
                 videoMood, soundMusic>>
  /\ sceneFrame

(***************************************************************************)
(* Global spoken dialogue (612-626, 1478-1564).  The handlers copy the     *)
(* array of the render they belong to and assign into the entry objects    *)
(* in place.                                                               *)
(***************************************************************************)
spokenFrame ==
  UNCHANGED <<formVars, savedCharacters, actionVars, sceneVars, outputVars, modalVars,
              loadingVars, serviceVars, now>>

\* The section is rendered once a character is saved (1478).
handleAddSpokenDialogue ==
  /\ Len(savedCharacters) > 0
  /\ Len(spokenDialogue) < MaxSpoken
  /\ LET ref == newRef(dialogueObjects)
     IN  /\ dialogueObjects' =
              [r \in DOMAIN dialogueObjects \cup {ref} |->
                 IF r = ref
                 THEN [charId |-> "", type |-> "", sentence |-> <<>>, targetCharId |-> ""]
                 ELSE dialogueObjects[r]]
         /\ spokenDialogue' = Append(spokenDialogue, ref)
  /\ spokenFrame

\* updatedDialogue = [...array]; updatedDialogue[index][field] = value;
\* setSpokenDialogue(updatedDialogue)
spokenDialogueChange(array, index, field, value, inFlight) ==
  /\ dialogueObjects' =
       liveObjects(array, inFlight,
                   [dialogueObjects EXCEPT ![array[index]][field] = value])
  /\ spokenDialogue' = array

handleSpokenDialogueChange(index, field, value) ==
  /\ Len(savedCharacters) > 0
  /\ index \in 1..Len(spokenDialogue)
  /\ field = "charId" => value \in {""} \cup idsOf(savedCharacters)
  /\ field = "targetCharId" =>
       /\ dialogueObjects[spokenDialogue[index]].type
            \in {"Ask a question", "Give an answer"}
       /\ value \in {""} \cup
            (idsOf(savedCharacters) \ {dialogueObjects[spokenDialogue[index]].charId})
  /\ spokenDialogueChange(spokenDialogue, index, field, value, pending)
  /\ spokenFrame

handleRemoveSpokenDialogue(index) ==
  /\ Len(savedCharacters) > 0
  /\ index \in 1..Len(spokenDialogue)
  /\ spokenDialogue' = splice(spokenDialogue, index)
  /\ dialogueObjects' = liveObjects(splice(spokenDialogue, index), pending, dialogueObjects)
  /\ spokenFrame

(***************************************************************************)
(* The generation service (441-464, 508-531, 790-812).  A call in flight   *)
(* is suspended at `await fetch`; the continuation that runs when the      *)
(* response arrives (await response.text() / response.json() have no       *)
(* effect on the state in between) is one step.  A response is             *)
(*   fetch  : "throw" when fetch rejects, else "response"                  *)
(*   ok, status, errorText : response.ok, response.status, response.text() *)
(*   json   : "throw" when response.json() rejects, else the shape of the  *)
(*            result: candidates, content and parts are "undefined",       *)
(*            "empty" (an empty array), "one" or "object"                  *)
(*   hasText, text : whether parts[0].text is a string, and the string     *)
(***************************************************************************)
response(fetch, ok, status, errorText, candidates, content, parts, hasText, text) ==
  [fetch |-> fetch, ok |-> ok, status |-> status, errorText |-> errorText,
   candidates |-> candidates, content |-> content, parts |-> parts,
   hasText |-> hasText, text |-> text]

networkError == response("throw", FALSE, 0, <<>>, "undefined", "undefined", "undefined", FALSE, <<>>)
statusError(status, errorText) ==
  response("response", FALSE, status, errorText, "undefined", "undefined", "undefined", FALSE, <<>>)
invalidJson == response("response", TRUE, 200, <<>>, "throw", "undefined", "undefined", FALSE, <<>>)
noCandidates == response("response", TRUE, 200, <<>>, "undefined", "undefined", "undefined", FALSE, <<>>)
emptyCandidates == response("response", TRUE, 200, <<>>, "empty", "undefined", "undefined", FALSE, <<>>)
noContent == response("response", TRUE, 200, <<>>, "one", "undefined", "undefined", FALSE, <<>>)
noParts == response("response", TRUE, 200, <<>>, "one", "object", "undefined", FALSE, <<>>)
emptyParts == response("response", TRUE, 200, <<>>, "one", "object", "empty", FALSE, <<>>)
noText == response("response", TRUE, 200, <<>>, "one", "object", "one", FALSE, <<>>)
success(text) == response("response", TRUE, 200, <<>>, "one", "object", "one", TRUE, text)

\* result.candidates && result.candidates.length > 0 && result.candidates[0].content
\*   && result.candidates[0].content.parts && result.candidates[0].content.parts.length > 0
expectedShape(resp) ==
  /\ resp.candidates # "undefined" /\ resp.candidates # "empty"
  /\ resp.content # "undefined"
  /\ resp.parts # "undefined" /\ resp.parts # "empty"

\* How the try block of a suggestion ends: "catch" (an exception: fetch or
\* json() rejected, or .trim() of undefined), "status", "unexpected", "written".
outcome(resp) ==
  IF resp.fetch = "throw" THEN "catch"
  ELSE IF ~resp.ok THEN "status"
  ELSE IF resp.candidates = "throw" THEN "catch"
  ELSE IF ~expectedShape(resp) THEN "unexpected"
  ELSE IF ~resp.hasText THEN "catch"
  ELSE "written"

call(op, charId, index, name, array) ==
  [op |-> op, charId |-> charId, index |-> index, seq |-> issued + 1, name |-> name,
   spokenDialogue |-> array]

\* { ...prev, [key]: value }
withKey(prev, key, value) ==
  [k \in DOMAIN prev \cup {key} |-> IF k = key THEN value ELSE prev[k]]

isLoading(flags, key) == key \in DOMAIN flags /\ flags[key]

(***************************************************************************)
(* suggestCharacterAction (423-471)                                        *)
(***************************************************************************)
\* A slip the refusal would not survive: the request sent without looking
\* the character up.
suggestCharacterActionUnchecked(charId) ==
  /\ issued < MaxRequests
  /\ isLoadingActionSuggestion' = withKey(isLoadingActionSuggestion, charId, TRUE)
  /\ pending' = pending \cup {call("action", charId, 0, <<>>, <<>>)}
  /\ issued' = issued + 1
  /\ UNCHANGED <<formVars, savedCharacters, actionVars, sceneVars, spokenVars,
                 outputVars, modalVars, isLoadingDialogueSuggestion, resolved, now>>

suggestCharacterAction(charId) ==
  LET character == find(savedCharacters, charId)
  IN  IF character = <<>>
      THEN /\ showCustomModal(<<"Karakter tidak ditemukan.">>)
           /\ isLoadingActionSuggestion' = withKey(isLoadingActionSuggestion, charId, FALSE)
           /\ UNCHANGED <<formVars, savedCharacters, actionVars, sceneVars, spokenVars,
                          outputVars, isLoadingDialogueSuggestion, serviceVars, now>>
      ELSE /\ issued < MaxRequests
           /\ isLoadingActionSuggestion' = withKey(isLoadingActionSuggestion, charId, TRUE)
           /\ pending' = pending \cup {call("action", charId, 0, character[1].name, <<>>)}
           /\ issued' = issued + 1
           /\ UNCHANGED <<formVars, savedCharacters, actionVars, sceneVars, spokenVars,
                          outputVars, modalVars, isLoadingDialogueSuggestion, resolved,
                          now>>

\* A slip the write would not survive: the text written as it came.
actionSuggestedUntrimmed(q, resp) ==
  /\ characterActions' =
       characterActionChange(characterActions, q.charId, "action", resp.text)
  /\ showCustomModal(<<"Aksi untuk ">> \o q.name \o <<" disarankan: \"">>
                       \o resp.text \o <<"\"">>)

\* A guard the code does not have: the response of a call that is not the
\* last one started is dropped.
actionSuggestedIfLatest(q, resp) ==
  LET generatedAction == trim(resp.text)
  IN  /\ characterActions' =
           IF q.seq = issued
           THEN characterActionChange(characterActions, q.charId, "action", generatedAction)
           ELSE characterActions
      /\ showCustomModal(<<"Aksi untuk ">> \o q.name \o <<" disarankan: \"">>
                           \o generatedAction \o <<"\"">>)

actionSuggested(q, resp) ==
  LET generatedAction == trim(resp.text)
  IN  /\ characterActions' =
           characterActionChange(characterActions, q.charId, "action", generatedAction)
      /\ showCustomModal(<<"Aksi untuk ">> \o q.name \o <<" disarankan: \"">>
                           \o generatedAction \o <<"\"">>)

\* A slip the report of a failure would not survive: the failure swallowed.
actionSuggestionFailedSilently(message) ==
  UNCHANGED <<modalVars, characterActions>>

\* The paths that end without a write: the message, and nothing else.
actionSuggestionFailed(message) ==
  /\ showCustomModal(message)
  /\ UNCHANGED characterActions

\* The call q returns with resp.
returned(q, resp) ==
  /\ pending' = pending \ {q}
  /\ resolved' = Append(resolved,
                         [seq |-> q.seq, written |-> outcome(resp) = "written",
                          text |-> IF outcome(resp) = "written" THEN resp.text ELSE <<>>])
  /\ UNCHANGED issued

resolveCharacterAction(q, resp) ==
  /\ q \in pending /\ q.op = "action"
  /\ returned(q, resp)
  /\ CASE outcome(resp) = "written" -> actionSuggested(q, resp)
       [] outcome(resp) = "status" ->
            actionSuggestionFailed(
              <<"Gagal menyarankan aksi. Status: ", ToString(resp.status), ". Detail: ">>
                \o substring0(resp.errorText, DetailLength) \o <<"...">>)
       [] outcome(resp) = "unexpected" ->
            actionSuggestionFailed(<<"Gagal menyarankan aksi. Respon API tidak terduga.">>)
       [] OTHER ->
            actionSuggestionFailed(<<"Terjadi kesalahan saat menyarankan aksi. Coba lagi.">>)
  /\ isLoadingActionSuggestion' = withKey(isLoadingActionSuggestion, q.charId, FALSE)
  /\ UNCHANGED <<formVars, savedCharacters, selectedCharactersForActions, expressions,
                 sceneVars, spokenVars, outputVars, isLoadingDialogueSuggestion, now>>

(***************************************************************************)
(* suggestDialogueSentence (474-538)                                       *)
(***************************************************************************)
\* A slip the flags would not survive: the flag left set when the call is
\* turned down.
suggestDialogueSentenceFlagLeft(dialogueIndex) ==
  /\ dialogueIndex \in 1..Len(spokenDialogue)
  /\ LET dialogue == dialogueObjects[spokenDialogue[dialogueIndex]]
         character == find(savedCharacters, dialogue.charId)
     IN  IF character = <<>> \/ dialogue.type = ""
         THEN /\ showCustomModal(<<"Pilih karakter dan jenis dialog terlebih dahulu.">>)
              /\ isLoadingDialogueSuggestion' =
                   withKey(isLoadingDialogueSuggestion, dialogueIndex, TRUE)
              /\ UNCHANGED <<formVars, savedCharacters, actionVars, sceneVars, spokenVars,
                             outputVars, isLoadingActionSuggestion, serviceVars, now>>
         ELSE /\ issued < MaxRequests
              /\ isLoadingDialogueSuggestion' =
                   withKey(isLoadingDialogueSuggestion, dialogueIndex, TRUE)
              /\ pending' = pending \cup
                   {call("dialogue", "", dialogueIndex, character[1].name, spokenDialogue)}
              /\ issued' = issued + 1
              /\ UNCHANGED <<formVars, savedCharacters, actionVars, sceneVars, spokenVars,
                             outputVars, modalVars, isLoadingActionSuggestion, resolved,
                             now>>

suggestDialogueSentence(dialogueIndex) ==
  /\ dialogueIndex \in 1..Len(spokenDialogue)
  /\ LET dialogue == dialogueObjects[spokenDialogue[dialogueIndex]]
         character == find(savedCharacters, dialogue.charId)
     IN  IF character = <<>> \/ dialogue.type = ""
         THEN /\ showCustomModal(<<"Pilih karakter dan jenis dialog terlebih dahulu.">>)
              /\ isLoadingDialogueSuggestion' =
                   withKey(isLoadingDialogueSuggestion, dialogueIndex, FALSE)
              /\ UNCHANGED <<formVars, savedCharacters, actionVars, sceneVars, spokenVars,
                             outputVars, isLoadingActionSuggestion, serviceVars, now>>
         ELSE /\ issued < MaxRequests
              /\ isLoadingDialogueSuggestion' =
                   withKey(isLoadingDialogueSuggestion, dialogueIndex, TRUE)
              /\ pending' = pending \cup
                   {call("dialogue", "", dialogueIndex, character[1].name, spokenDialogue)}
              /\ issued' = issued + 1
              /\ UNCHANGED <<formVars, savedCharacters, actionVars, sceneVars, spokenVars,
                             outputVars, modalVars, isLoadingActionSuggestion, resolved,
                             now>>

\* handleSpokenDialogueChange of the render the call was started in: its
\* spokenDialogue is the array of that render.
sentenceSuggested(q, resp) ==
  LET generatedSentence == StripQuotes(trim(resp.text))
  IN  /\ spokenDialogueChange(q.spokenDialogue, q.index, "sentence", generatedSentence,
                              pending \ {q})
      /\ showCustomModal(<<"Kalimat dialog disarankan untuk ">> \o q.name \o <<": \"">>
                           \o generatedSentence \o <<"\"">>)

\* The paths that end without a write.  The array of the call's render is
\* released with the call.
sentenceSuggestionFailed(q, message) ==
  /\ showCustomModal(message)
  /\ dialogueObjects' = liveObjects(spokenDialogue, pending \ {q}, dialogueObjects)
  /\ UNCHANGED spokenDialogue

resolveDialogueSentence(q, resp) ==
  /\ q \in pending /\ q.op = "dialogue"
  /\ returned(q, resp)
  /\ CASE outcome(resp) = "written" -> sentenceSuggested(q, resp)
       [] outcome(resp) = "status" ->
            sentenceSuggestionFailed(q,
              <<"Gagal menyarankan dialog. Status: ", ToString(resp.status), ". Detail: ">>
                \o substring0(resp.errorText, DetailLength) \o <<"...">>)
       [] outcome(resp) = "unexpected" ->
            sentenceSuggestionFailed(q,
              <<"Gagal menyarankan dialog. Respon API tidak terduga.">>)
       [] OTHER ->
            sentenceSuggestionFailed(q,
              <<"Terjadi kesalahan saat menyarankan dialog. Coba lagi.">>)
  /\ isLoadingDialogueSuggestion' =
       withKey(isLoadingDialogueSuggestion, q.index, FALSE)
  /\ UNCHANGED <<formVars, savedCharacters, actionVars, sceneVars, outputVars,
                 isLoadingActionSuggestion, now>>

(***************************************************************************)
(* Spec: the character form, from the constructed component                *)
(***************************************************************************)
toddler == animalAge[2].value

NameInputs == {<<>>, <<"Bruno">>}
TypeInputs == {"", "human", "animal4", "animal2", "fantasy"}
HumanInputs == {<<"gender", <<"Female">>>>}
Animal4Inputs == {<<"animalType", <<"Cat">>>>}
Animal2Inputs == {<<"age", <<toddler>>>>}
FantasyInputs == {<<"Naga Bersisik">>}

Next ==
  \/ \E value \in NameInputs : setCharacterName(value)
  \/ \E value \in TypeInputs : setCharacterType(value)
  \/ \E input \in HumanInputs : setHumanDetails(input[1], input[2])
  \/ \E input \in Animal4Inputs : setAnimal4Details(input[1], input[2])
  \/ \E input \in Animal2Inputs : setAnimal2Details(input[1], input[2])
  \/ \E value \in FantasyInputs : setFantasyDetails(value)
  \/ handleSaveCharacter
  \/ resetForm
  \/ Tick

Spec == Init /\ [][Next]_vars

(***************************************************************************)
(* What the claims below read of a state                                   *)
(***************************************************************************)
\* The text generateIndonesianPromptText would store in this state.
composed == generateIndonesianPromptText(Store, animal2Details)

\* The array behind it.
composedArray == promptArray(Store, animal2Details)

\* sub occurs in s as a run of consecutive elements.
Contains(s, sub) ==
  \E i \in 0..(Len(s) - Len(sub)) : SubSeq(s, i + 1, i + Len(sub)) = sub

IsAgeDescriptor(age) == \E i \in 1..Len(animalAge) : age = <<animalAge[i].value>>

(***************************************************************************)
(* C1  The composed text is a function of the store alone: a step that     *)
(* leaves savedCharacters, characterActions, expressions, the scene        *)
(* attributes, spokenDialogue and additionalDetails as they are (a step    *)
(* that edits only the character form, for one) leaves the text that       *)
(* generateIndonesianPromptText yields as it is.                           *)
(***************************************************************************)
C1_ComposeDependsOnStoreOnly == [][Store' = Store => composed' = composed]_vars

(***************************************************************************)
(* C2  For every saved two-legged animal whose age is a value of the       *)
(* animalAge table, its introduction sentence contains that value in       *)
(* parentheses, in every state after the character was saved.              *)
(***************************************************************************)
C2_AgeDescriptorInIntroduction ==
  \A i \in 1..Len(savedCharacters) :
     (/\ savedCharacters[i].type = "animal2"
      /\ IsAgeDescriptor(savedCharacters[i].details.age))
       => Contains(introStep(Store, animal2Details)[i].text,
                   <<" (">> \o savedCharacters[i].details.age \o <<")">>)

(***************************************************************************)
(* SpecCompose: generateIndonesianPromptText as a function of the store.   *)
(* Init draws the store from stores the handlers can build: characters     *)
(* saved at times 1 and 2, then actions, expressions, scene attributes,    *)
(* spoken dialogue and additional details entered for them.  The one       *)
(* action is the button that generates the prompt.                         *)
(***************************************************************************)
Aria(details) == [id |-> "1", name |-> <<"Aria">>, type |-> "human", details |-> details]

Bruno ==
  [id |-> "2", name |-> <<"Bruno">>, type |-> "animal2",
   details |-> [emptyAnimal2 EXCEPT !.animalType = <<"Bear">>, !.age = <<toddler>>]]

Maybe(value) == {<<>>, value}

\* Every choice of the six attributes of a human that the introduction reads.
HumanDetailsInputs ==
  {[emptyHuman EXCEPT !.gender = g, !.age = a, !.skinColor = s, !.bodyTypePosture = b,
                      !.clothingAccessories = c, !.additionalDetail = x] :
     g \in Maybe(<<"Female">>), a \in Maybe(<<"25 Tahun">>), s \in Maybe(<<"Fair">>),
     b \in Maybe(<<"Slim">>), c \in Maybe(<<"Kaos Biru">>), x \in Maybe(<<"Bekas Luka">>)}

AriaFemale == Aria([emptyHuman EXCEPT !.gender = <<"Female">>, !.age = <<"25 Tahun">>])

CharacterLists ==
  {<<>>} \cup {<<Aria(d)>> : d \in HumanDetailsInputs}
         \cup {<<Aria(d), Bruno>> : d \in HumanDetailsInputs}
         \cup {<<Bruno, Aria(d)>> : d \in HumanDetailsInputs}

characterAction(charId, text, isMain, dialogueLines) ==
  [charId |-> charId, action |-> text, isMain |-> isMain, dialogueLines |-> dialogueLines]

dialogueLine(type, sentence) == [type |-> type, sentence |-> sentence, targetCharId |-> ""]

spokenEntry(charId, type, sentence, targetCharId) ==
  [charId |-> charId, type |-> type, sentence |-> sentence, targetCharId |-> targetCharId]

ActionLists ==
  {<<>>,
   <<characterAction("1", <<"Berlari">>, TRUE, <<>>)>>,
   <<characterAction("2", <<>>, FALSE,
            <<dialogueLine("Ask a question", <<"Apa kabar?">>), dialogueLine("", <<>>),
              dialogueLine("Give an answer", <<"Baik">>)>>),
     characterAction("1", <<"Melompat">>, TRUE, <<dialogueLine("Give an answer", <<"Ya">>)>>)>>,
   <<characterAction("1", <<"Berlari">>, TRUE, <<>>), characterAction("2", <<"Melompat">>, TRUE, <<>>)>>}

ExpressionMaps == {emptyMap, [k \in {"2"} |-> <<"Happy">>]}

SpokenLists ==
  {<<>>,
   <<spokenEntry("1", "Ask a question", <<"Apa kabar?">>, "2")>>,
   <<spokenEntry("2", "Berbicara ke Audiens", <<"Halo">>, ""),
     spokenEntry("1", "Give an answer", <<>>, "2"),
     spokenEntry("1", "Give an answer", <<"Baik">>, "")>>}

\* The store of Init: the form is cleared by the last save, nothing is in
\* flight, and the entry objects of the spoken dialogue are numbered in order.
InitStore(characters, actions, expressionMap, spoken) ==
  /\ EmptyForm /\ Idle /\ now = Len(characters) + 1
  /\ savedCharacters = characters
  /\ selectedCharactersForActions = [i \in 1..Len(actions) |-> actions[i].charId]
  /\ characterActions = actions
  /\ expressions = expressionMap
  /\ spokenDialogue = [i \in 1..Len(spoken) |-> i]
  /\ dialogueObjects = [ref \in 1..Len(spoken) |-> spoken[ref]]

InitCompose ==
  \/ \* characters only
     /\ \E characters \in CharacterLists : InitStore(characters, <<>>, emptyMap, <<>>)
     /\ EmptyScene
  \/ \* two characters and what was entered for them
     /\ \E actions \in ActionLists, expressionMap \in ExpressionMaps, spoken \in SpokenLists :
          InitStore(<<AriaFemale, Bruno>>, actions, expressionMap, spoken)
     /\ location \in Maybe(<<"Hutan">>)
     /\ timeOfDay \in Maybe(<<"Morning">>)
     /\ cameraMotion \in {"", "Zoom In"}
     /\ lighting \in Maybe(<<"Soft lighting">>)
     /\ selectedVisualStyles \in {<<>>, <<"Anime">>, <<"Anime", "2D">>}
     /\ videoMood \in Maybe(<<"Cozy">>)
     /\ soundMusic \in Maybe(<<"Piano">>)
     /\ additionalDetails \in Maybe(<<"Tanpa teks">>)

NextCompose == generatePrompt

SpecCompose == InitCompose /\ [][NextCompose]_vars

(***************************************************************************)
(* C3  The sentences of the composed text come in the fixed order: callout *)
(* of the main characters, introductions in the order of savedCharacters,  *)
(* action and dialogue lines in the order of characterActions, location,   *)
(* time of day, camera motion, lighting, visual styles, mood, sound/music, *)
(* spoken dialogue in the order of spokenDialogue, additional details; and *)
(* a step whose input is empty contributes no sentence.                    *)
(***************************************************************************)
Rank(step) ==
  CASE step = "callout" -> 1
    [] step = "intro" -> 2
    [] step \in {"action", "line"} -> 3
    [] step = "location" -> 4
    [] step = "timeOfDay" -> 5
    [] step = "cameraMotion" -> 6
    [] step = "lighting" -> 7
    [] step = "visualStyles" -> 8
    [] step = "videoMood" -> 9
    [] step = "soundMusic" -> 10
    [] step = "spoken" -> 11
    [] step = "additional" -> 12

\* The words a sentence of the step opens with, after the name where it
\* starts with one.
Opening(step) ==
  CASE step = "callout" -> <<"Karakter utama adalah ">>
    [] step = "intro" -> <<" adalah ">>
    [] step = "action" -> <<" sedang ">>
    [] step = "line" -> <<" ">>
    [] step = "location" -> <<"Adegan berlangsung di ">>
    [] step = "timeOfDay" -> <<"Waktu kejadian adalah ">>
    [] step = "cameraMotion" -> <<"Gerakan kamera: ">>
    [] step = "lighting" -> <<"Pencahayaan: ">>
    [] step = "visualStyles" -> <<"Gaya visual video adalah ">>
    [] step = "videoMood" -> <<"Suasana video: ">>
    [] step = "soundMusic" -> <<"Latar belakang musik/suara: ">>
    [] step = "spoken" -> <<" ">>
    [] step = "additional" -> <<"Detail tambahan: ">>

StartsWithName(step) == step \in {"intro", "action", "line", "spoken"}

\* s comes before t in the order of the inputs: <<k>> before <<k, j>>,
\* <<k, j>> before <<k, j + 1>> and before <<k + 1>>.
InputBefore(s, t) ==
  \/ Len(s) < Len(t) /\ SubSeq(t, 1, Len(s)) = s
  \/ \E n \in 1..Min({Len(s), Len(t)}) :
        SubSeq(s, 1, n - 1) = SubSeq(t, 1, n - 1) /\ s[n] < t[n]

SentenceBefore(x, y) ==
  \/ Rank(x.step) < Rank(y.step)
  \/ Rank(x.step) = Rank(y.step) /\ InputBefore(x.src, y.src)

StepsOf(array) == {array[i].step : i \in 1..Len(array)}

C3_FixedSentenceOrder ==
  LET prompt == composedArray
      steps == StepsOf(prompt)
  IN  /\ \A i, j \in 1..Len(prompt) : i < j => SentenceBefore(prompt[i], prompt[j])
      /\ \A i \in 1..Len(prompt) :
            LET e == prompt[i]
                from == IF StartsWithName(e.step) THEN 2 ELSE 1
            IN  SubSeq(e.text, from, from + Len(Opening(e.step)) - 1) = Opening(e.step)
      /\ savedCharacters = <<>> => steps \cap {"callout", "intro"} = {}
      /\ characterActions = <<>> => steps \cap {"callout", "action", "line"} = {}
      /\ location = <<>> => "location" \notin steps
      /\ timeOfDay = <<>> => "timeOfDay" \notin steps
      /\ cameraMotion = "" => "cameraMotion" \notin steps
      /\ lighting = <<>> => "lighting" \notin steps
      /\ selectedVisualStyles = <<>> => "visualStyles" \notin steps
      /\ videoMood = <<>> => "videoMood" \notin steps
      /\ soundMusic = <<>> => "soundMusic" \notin steps
      /\ spokenDialogue = <<>> => "spoken" \notin steps
      /\ additionalDetails = <<>> => "additional" \notin steps
      /\ indonesianPrompt # <<>> =>
            indonesianPrompt = join([i \in 1..Len(prompt) |-> prompt[i].text], <<" ">>)

\* A generated prompt in which every step has contributed.
C3_Witness ==
  /\ indonesianPrompt # <<>>
  /\ StepsOf(composedArray) =
       {"callout", "intro", "action", "line", "location", "timeOfDay", "cameraMotion",
        "lighting", "visualStyles", "videoMood", "soundMusic", "spoken", "additional"}

(***************************************************************************)
(* C7  When the store holds characters and nothing else, the composed text *)
(* is one introduction per character and nothing else; the introduction of *)
(* a human is the name, " adalah seorang manusia", the gender when set,    *)
(* then a clause for exactly those of age, skin color, body type/posture,  *)
(* clothing and additional detail that are set, in that order.             *)
(***************************************************************************)
OnlyCharacters ==
  /\ characterActions = <<>> /\ EmptyScene /\ spokenDialogue = <<>>

HumanFields ==
  <<"age", "skinColor", "bodyTypePosture", "clothingAccessories", "additionalDetail">>

HumanMarkers == <<" berusia ", " dengan kulit ", " berbadan ", " mengenakan ", ", ">>

\* The first place of token in text, 0 when it is not there.
IndexOf(text, token) ==
  IF \E n \in 1..Len(text) : text[n] = token
  THEN Min({n \in 1..Len(text) : text[n] = token})
  ELSE 0

HumanIntroduction(char, text) ==
  LET d == char.details
      given == {k \in 1..Len(HumanFields) : d[HumanFields[k]] # <<>>}
      at(k) == IndexOf(text, HumanMarkers[k])
      head == char.name \o <<" adalah ", "seorang", " ", "manusia ">>
  IN  /\ SubSeq(text, 1, Len(head)) = head
      /\ SubSeq(text, Len(head) + 1, Len(head) + Len(d.gender)) = toLowerCase(d.gender)
      /\ \A k \in 1..Len(HumanFields) : k \in given <=> at(k) > 0
      /\ \A k \in given :
            SubSeq(text, at(k) + 1, at(k) + Len(d[HumanFields[k]]))
              = toLowerCase(d[HumanFields[k]])
      /\ \A k, l \in given : k < l => at(k) < at(l)
      /\ text[Len(text)] = "."
      /\ Len(text) = Len(head) + Len(d.gender) + Cardinality(given)
                      + Len(Flatten([k \in 1..Len(HumanFields) |-> d[HumanFields[k]]])) + 1

C7_OnlyIntroductions ==
  LET prompt == composedArray
  IN  OnlyCharacters =>
        /\ Len(prompt) = Len(savedCharacters)
        /\ \A i \in 1..Len(prompt) :
              /\ prompt[i].step = "intro" /\ prompt[i].src = <<i>>
              /\ savedCharacters[i].type = "human" =>
                   HumanIntroduction(savedCharacters[i], prompt[i].text)
        /\ indonesianPrompt # <<>> =>
              indonesianPrompt =
                join([i \in 1..Len(savedCharacters) |-> prompt[i].text], <<" ">>)

\* Aria, female, 25 years old, and nothing else: the generated prompt.
C7_Witness ==
  /\ OnlyCharacters
  /\ savedCharacters = <<AriaFemale>>
  /\ indonesianPrompt =
       <<"Aria", " adalah ", "seorang", " ", "manusia ", "female", " berusia ",
         "25 tahun", ".">>

(***************************************************************************)
(* SpecStore: the handlers of the character actions and of the spoken      *)
(* dialogue, from the store with Aria and Bruno saved.                     *)
(***************************************************************************)
InitStored ==
  /\ InitStore(<<AriaFemale, Bruno>>, <<>>, emptyMap, <<>>)
  /\ EmptyScene

CharIds == {"1", "2"}
ActionCharIds == {"1"}
ActionInputs == {<<"Berlari">>}
LineCharIds == {"2"}
LineInputs ==
  {<<"type", "Ask a question">>, <<"sentence", <<"Apa kabar?">>>>, <<"sentence", <<>>>>}
SpokenInputs ==
  {<<"charId", "1">>, <<"type", "Ask a question">>, <<"targetCharId", "2">>,
   <<"sentence", <<"Apa kabar?">>>>, <<"sentence", <<>>>>}

NextStore ==
  \/ \E charId \in CharIds : selectCharacterForActions(charId)
  \/ \E charId \in ActionCharIds, value \in ActionInputs :
        handleCharacterActionChange(charId, "action", value)
  \/ \E charId \in CharIds : handleToggleMainCharacter(charId)
  \/ \E charId \in LineCharIds : handleAddDialogueLine(charId)
  \/ \E charId \in LineCharIds, lineIndex \in 1..MaxLines, input \in LineInputs :
        handleDialogueLineChange(charId, lineIndex, input[1], input[2])
  \/ \E charId \in LineCharIds, lineIndex \in 1..MaxLines :
        handleRemoveDialogueLine(charId, lineIndex)
  \/ handleAddSpokenDialogue
  \/ \E index \in 1..MaxSpoken, input \in SpokenInputs :
        handleSpokenDialogueChange(index, input[1], input[2])
  \/ \E index \in 1..MaxSpoken : handleRemoveSpokenDialogue(index)

SpecStore == InitStored /\ [][NextStore]_vars

(***************************************************************************)
(* C5  The callout of the main characters is part of the composed text     *)
(* exactly when some entry of characterActions has isMain = TRUE; it is    *)
(* then the first sentence, there is one of it, and a saved character is   *)
(* named in it exactly when an entry with isMain = TRUE has its id.        *)
(***************************************************************************)
MainIds == {characterActions[k].charId : k \in {i \in 1..Len(characterActions) :
                                                  characterActions[i].isMain}}

C5_MainCharacterCallout ==
  LET prompt == composedArray
      callouts == {i \in 1..Len(prompt) : prompt[i].step = "callout"}
  IN  /\ callouts # {} <=> MainIds # {}
      /\ callouts # {} =>
           /\ callouts = {1}
           /\ prompt[1].text[1] = "Karakter utama adalah "
           /\ prompt[1].text[Len(prompt[1].text)] = "."
           /\ SubSeq(composed, 1, Len(prompt[1].text)) = prompt[1].text
           /\ \A i \in 1..Len(savedCharacters) :
                 Contains(prompt[1].text, savedCharacters[i].name)
                   <=> savedCharacters[i].id \in MainIds

\* Two characters have an entry and one of them is the main character.
C5_Witness ==
  /\ Len(characterActions) = 2
  /\ MainIds = {"2"}
  /\ composedArray[1].text = <<"Karakter utama adalah ", "Bruno", ".">>

(***************************************************************************)
(* C6  A dialogue line of a character action and an entry of the spoken    *)
(* dialogue contribute no sentence when their sentence is empty; a spoken  *)
(* entry of type "Ask a question" whose speaker and target are saved       *)
(* characters and whose sentence is not empty contributes exactly one      *)
(* sentence, which names the speaker and the target and quotes the         *)
(* sentence.                                                               *)
(***************************************************************************)
SentencesOf(prompt, step, src) ==
  {i \in 1..Len(prompt) : prompt[i].step = step /\ prompt[i].src = src}

C6_DialogueSentences ==
  LET prompt == composedArray
      spoken == Store.spokenDialogue
  IN  /\ \A k \in 1..Len(characterActions) :
            \A j \in 1..Len(characterActions[k].dialogueLines) :
               characterActions[k].dialogueLines[j].sentence = <<>>
                 => SentencesOf(prompt, "line", <<k, j>>) = {}
      /\ \A k \in 1..Len(spoken) :
            /\ spoken[k].sentence = <<>> => SentencesOf(prompt, "spoken", <<k>>) = {}
            /\ LET speaker == find(savedCharacters, spoken[k].charId)
                   targetChar == find(savedCharacters, spoken[k].targetCharId)
               IN  (/\ spoken[k].type = "Ask a question"
                    /\ speaker # <<>> /\ targetChar # <<>>
                    /\ spoken[k].sentence # <<>>)
                     => /\ Cardinality(SentencesOf(prompt, "spoken", <<k>>)) = 1
                        /\ \A i \in SentencesOf(prompt, "spoken", <<k>>) :
                              /\ SubSeq(prompt[i].text, 1, Len(speaker[1].name))
                                   = speaker[1].name
                              /\ Contains(prompt[i].text,
                                          <<"bertanya", " kepada ">> \o targetChar[1].name)
                              /\ Contains(prompt[i].text,
                                          <<": \"">> \o spoken[k].sentence \o <<"\"">>)
                              /\ Contains(composed, prompt[i].text)
      /\ Cardinality({i \in 1..Len(prompt) : prompt[i].step = "spoken"})
           = Cardinality({k \in 1..Len(spoken) :
                            /\ find(savedCharacters, spoken[k].charId) # <<>>
                            /\ spoken[k].sentence # <<>>})

\* A dialogue line without a sentence beside a question of Aria to Bruno.
C6_Witness ==
  /\ \E k \in 1..Len(characterActions) :
        \E j \in 1..Len(characterActions[k].dialogueLines) :
           characterActions[k].dialogueLines[j].sentence = <<>>
  /\ \E k \in 1..Len(spokenDialogue) :
        /\ Store.spokenDialogue[k]
             = spokenEntry("1", "Ask a question", <<"Apa kabar?">>, "2")
        /\ \E i \in 1..Len(composedArray) :
              composedArray[i].text
                = <<"Aria", " ", "bertanya", " kepada ", "Bruno", ": \"", "Apa kabar?", "\"">>

(***************************************************************************)
(* SpecAsync: the suggestion calls and the edits that can happen while a   *)
(* call is in flight, from the store with Aria and Bruno saved and a       *)
(* question of Aria to Bruno entered without its sentence.  The handlers   *)
(* are the operations: suggestCharacterAction and suggestDialogueSentence  *)
(* test no loading flag, so a second call for a key is modelled whether or *)
(* not the button that starts it is shown disabled (1222, 1539).           *)
(***************************************************************************)
InitAsync ==
  /\ InitStore(<<AriaFemale, Bruno>>, <<>>, emptyMap,
               <<spokenEntry("1", "Ask a question", <<>>, "2")>>)
  /\ EmptyScene

Responses ==
  {networkError, statusError(500, <<"Internal error">>), invalidJson, noCandidates,
   emptyCandidates, noContent, noParts, emptyParts, noText,
   success(<<" ", "\"", "Halo", "\"", "\n">>), success(<<"Hai">>)}

SuggestCharIds == {"1"}
SentenceInputs == {<<"Apa kabar?">>}

NextAsync ==
  \/ \E charId \in CharIds : selectCharacterForActions(charId)
  \/ \E charId \in SuggestCharIds, value \in ActionInputs :
        handleCharacterActionChange(charId, "action", value)
  \/ \E charId \in CharIds : handleToggleMainCharacter(charId)
  \/ handleAddSpokenDialogue
  \/ \E index \in 1..MaxSpoken, value \in SentenceInputs :
        handleSpokenDialogueChange(index, "sentence", value)
  \/ \E index \in 1..MaxSpoken : handleRemoveSpokenDialogue(index)
  \/ \E charId \in SuggestCharIds : suggestCharacterAction(charId)
  \/ \E q \in pending, resp \in Responses : resolveCharacterAction(q, resp)
  \/ \E index \in 1..MaxSpoken : suggestDialogueSentence(index)
  \/ \E q \in pending, resp \in Responses : resolveDialogueSentence(q, resp)
  \/ resetForm

SpecAsync == InitAsync /\ [][NextAsync]_vars

(***************************************************************************)
(* C4  Composing never raises, and an entry of characterActions or of the  *)
(* spoken dialogue whose charId names no saved character contributes no    *)
(* sentence (neither its action nor its dialogue lines), in every state    *)
(* the store operations, resetForm and the write-backs of the suggestion   *)
(* calls lead to.                                                          *)
(***************************************************************************)
C4_ComposeSkipsUnresolved ==
  LET prompt == composedArray
      spoken == Store.spokenDialogue
  IN  /\ ~raises(Store, animal2Details)
      /\ \A i \in 1..Len(prompt) : \A n \in 1..Len(prompt[i].text) :
            prompt[i].text[n] # TypeError
      /\ \A k \in 1..Len(characterActions) :
            find(savedCharacters, characterActions[k].charId) = <<>>
              => \A i \in 1..Len(prompt) :
                    prompt[i].step \in {"action", "line"} => prompt[i].src[1] # k
      /\ \A k \in 1..Len(spoken) :
            find(savedCharacters, spoken[k].charId) = <<>>
              => SentencesOf(prompt, "spoken", <<k>>) = {}

\* After resetForm two write-backs have put back an action and a spoken
\* entry of characters that are gone: nothing is composed of them.
C4_Witness ==
  /\ savedCharacters = <<>>
  /\ \E k \in 1..Len(characterActions) : characterActions[k].charId = "1"
  /\ \E k \in 1..Len(spokenDialogue) :
        /\ Store.spokenDialogue[k].charId = "1"
        /\ Store.spokenDialogue[k].targetCharId = "2"
        /\ Store.spokenDialogue[k].sentence # <<>>
  /\ composedArray = <<>>

(***************************************************************************)
(* C8  The response that returns last decides the field: every successful  *)
(* return of a suggestion call leaves its own text in the field of its     *)
(* key (the action of its charId, the sentence at its index), whether or   *)
(* not a call for the same key that was started later has returned before. *)
(***************************************************************************)
C8_LastResolvedWins ==
  [][\A q \in pending, resp \in Responses :
        /\ (resolveCharacterAction(q, resp) /\ outcome(resp) = "written")
             => \E k \in 1..Len(characterActions') :
                   /\ k = findIndex(characterActions', q.charId)
                   /\ characterActions'[k].action = trim(resp.text)
        /\ (resolveDialogueSentence(q, resp) /\ outcome(resp) = "written")
             => /\ q.index \in 1..Len(spokenDialogue')
                /\ dialogueObjects'[spokenDialogue'[q.index]].sentence
                     = StripQuotes(trim(resp.text))]_vars

\* Two calls for the action of Aria and none for a sentence: the second
\* returned first with "Halo", the first returned last with "Hai", and "Hai"
\* is the action.
C8_Witness ==
  /\ Len(resolved) = 2
  /\ resolved[1] = [seq |-> 2, written |-> TRUE, text |-> <<" ", "\"", "Halo", "\"", "\n">>]
  /\ resolved[2] = [seq |-> 1, written |-> TRUE, text |-> <<"Hai">>]
  /\ DOMAIN isLoadingDialogueSuggestion = {}
  /\ DOMAIN isLoadingActionSuggestion = {"1"}
  /\ currentAction("1").action = <<"Hai">>

(***************************************************************************)
(* C9  A successful return of suggestCharacterAction writes the trimmed    *)
(* text of the response into the action of the entry of the requested      *)
(* charId, appending the entry (not main, without dialogue lines) when     *)
(* there is none, and changes no other entry and no other field of that    *)
(* entry.                                                                  *)
(***************************************************************************)
\* value is text without the white space at its two ends.
Trimmed(value, text) ==
  /\ value # <<>> => ~IsSpace(value[1]) /\ ~IsSpace(value[Len(value)])
  /\ \E i \in 0..(Len(text) - Len(value)) :
        /\ SubSeq(text, i + 1, i + Len(value)) = value
        /\ \A n \in (1..i) \cup ((i + Len(value) + 1)..Len(text)) : IsSpace(text[n])

ActionWritten(q, resp) ==
  LET k == findIndex(characterActions, q.charId)
      n == Len(characterActions)
  IN  IF k > 0
      THEN /\ Len(characterActions') = n
           /\ \A i \in 1..n : i # k => characterActions'[i] = characterActions[i]
           /\ Trimmed(characterActions'[k].action, resp.text)
           /\ characterActions'[k]
                = [characterActions[k] EXCEPT !.action = characterActions'[k].action]
      ELSE /\ Len(characterActions') = n + 1
           /\ SubSeq(characterActions', 1, n) = characterActions
           /\ Trimmed(characterActions'[n + 1].action, resp.text)
           /\ characterActions'[n + 1]
                = [charId |-> q.charId, action |-> characterActions'[n + 1].action,
                   isMain |-> FALSE, dialogueLines |-> <<>>]

C9_SuccessWritesAction ==
  [][\A q \in pending, resp \in Responses :
        (resolveCharacterAction(q, resp) /\ outcome(resp) = "written")
          => ActionWritten(q, resp)]_vars

\* The suggestion for Aria, the main character, is written beside the entry
\* of Bruno.
C9_Witness ==
  /\ modalMessage =
       <<"Aksi untuk ", "Aria", " disarankan: \"", "\"", "Halo", "\"", "\"">>
  /\ Len(characterActions) = 2
  /\ currentAction("1") = characterAction("1", <<"\"", "Halo", "\"">>, TRUE, <<>>)
  /\ currentAction("2").isMain

(***************************************************************************)
(* C10  When a suggestion call returns with a non-success status, or an    *)
(* error is thrown during the call, characterActions and the entries of    *)
(* the spoken dialogue are as they were (the field keeps its value, no     *)
(* entry is created or removed) and a failure message is shown.            *)
(***************************************************************************)
FailureOpenings(op) ==
  IF op = "action"
  THEN {"Gagal menyarankan aksi. Status: ",
        "Terjadi kesalahan saat menyarankan aksi. Coba lagi."}
  ELSE {"Gagal menyarankan dialog. Status: ",
        "Terjadi kesalahan saat menyarankan dialog. Coba lagi."}

C10_FailureLeavesState ==
  [][\A q \in pending, resp \in Responses :
        ((resolveCharacterAction(q, resp) \/ resolveDialogueSentence(q, resp))
           /\ outcome(resp) \in {"status", "catch"})
          => /\ characterActions' = characterActions
             /\ spokenDialogue' = spokenDialogue
             /\ Store'.spokenDialogue = Store.spokenDialogue
             /\ showModal'
             /\ modalMessage' # <<>> /\ modalMessage'[1] \in FailureOpenings(q.op)
             /\ outcome(resp) = "status"
                  => Contains(modalMessage', <<ToString(resp.status)>>)]_vars

\* A call for the action of Aria and a call for the sentence have both
\* failed, the second by an exception: "Berlari" and "Apa kabar?" are still
\* there.
C10_Witness ==
  /\ Len(resolved) = 2 /\ ~resolved[1].written /\ ~resolved[2].written
  /\ DOMAIN isLoadingActionSuggestion = {"1"}
  /\ DOMAIN isLoadingDialogueSuggestion = {1}
  /\ showModal
  /\ modalMessage = <<"Terjadi kesalahan saat menyarankan dialog. Coba lagi.">>
  /\ characterActions = <<characterAction("1", <<"Berlari">>, FALSE, <<>>)>>
  /\ Store.spokenDialogue = <<spokenEntry("1", "Ask a question", <<"Apa kabar?">>, "2")>>

C17_UniqueCharacterIds ==
  \A i, j \in 1..Len(savedCharacters) :
     savedCharacters[i].id = savedCharacters[j].id => i = j

(***************************************************************************)
(* C19  handleSaveCharacter without a name, or without a selected type,    *)
(* shows its message and changes nothing else: savedCharacters and the     *)
(* form fields are as they were.                                           *)
(***************************************************************************)
C19_SaveValidation ==
  [][(handleSaveCharacter /\ (characterName = <<>> \/ characterType = ""))
       => /\ savedCharacters' = savedCharacters
          /\ formVars' = formVars
          /\ showModal'
          /\ modalMessage' =
               IF characterName = <<>>
               THEN <<"Character Name is required to save a character.">>
               ELSE <<"Please select a character type.">>
          /\ UNCHANGED <<actionVars, sceneVars, spokenVars, outputVars, loadingVars>>]_vars

\* After one character was saved, a save with a name and details but
\* without a type was turned down: the name and the details are still in
\* the form.
C19_Witness ==
  /\ Len(savedCharacters) = 1
  /\ showModal /\ modalMessage = <<"Please select a character type.">>
  /\ characterName # <<>> /\ characterType = ""
  /\ animal2Details.age # <<>>

(***************************************************************************)
(* maximizeEnglishPrompt (769-819) and its button (1614-1618).  The        *)
(* handler tests no loading flag; the button that calls it is disabled     *)
(* while isLoadingPrompt is true.                                          *)
(***************************************************************************)
\* The value undefined in a text field (no text of the inputs is this one).
undefined == <<"undefined">>

\* The text area of the Indonesian prompt (1602).
setIndonesianPrompt(value) ==
  /\ indonesianPrompt' = value
  /\ UNCHANGED <<formVars, savedCharacters, actionVars, sceneVars, spokenVars,
                 englishPrompt, isLoadingPrompt, modalVars, loadingVars, serviceVars,
                 now>>

maximizeEnglishPrompt ==
  IF indonesianPrompt = <<>>
  THEN /\ showCustomModal(<<"Generate the Indonesian prompt first.">>)
       /\ UNCHANGED <<formVars, savedCharacters, actionVars, sceneVars, spokenVars,
                      outputVars, loadingVars, serviceVars, now>>
  ELSE /\ issued < MaxRequests
       /\ isLoadingPrompt' = TRUE
       /\ pending' = pending \cup {call("refine", "", 0, <<>>, <<>>)}
       /\ issued' = issued + 1
       /\ UNCHANGED <<formVars, savedCharacters, actionVars, sceneVars, spokenVars,
                      indonesianPrompt, englishPrompt, modalVars, loadingVars,
                      resolved, now>>

\* A button that stays enabled: the handler as it is.
maximizeButtonAlwaysEnabled == maximizeEnglishPrompt

\* disabled={isLoadingPrompt}
maximizeButton ==
  /\ ~isLoadingPrompt
  /\ maximizeEnglishPrompt

\* How the try block of maximizeEnglishPrompt ends: parts[0].text is passed
\* on as it is, so a part without text raises nothing.
refinementOutcome(resp) ==
  IF resp.fetch = "throw" THEN "catch"
  ELSE IF ~resp.ok THEN "status"
  ELSE IF resp.candidates = "throw" THEN "catch"
  ELSE IF ~expectedShape(resp) THEN "unexpected"
  ELSE "written"

\* result.candidates[0].content.parts[0].text
textOf(resp) == IF resp.hasText THEN resp.text ELSE undefined

\* A slip the replacement would not survive: the text added to the old one.
promptOptimizedAppended(resp) ==
  /\ englishPrompt' = englishPrompt \o textOf(resp)
  /\ UNCHANGED modalVars

promptOptimized(resp) ==
  /\ englishPrompt' = textOf(resp)
  /\ UNCHANGED modalVars

optimizationFailed(message) ==
  /\ showCustomModal(message)
  /\ UNCHANGED englishPrompt

resolveMaximizeEnglishPrompt(q, resp) ==
  /\ q \in pending /\ q.op = "refine"
  /\ pending' = pending \ {q}
  /\ resolved' = Append(resolved,
                         [seq |-> q.seq, written |-> refinementOutcome(resp) = "written",
                          text |-> IF refinementOutcome(resp) = "written"
                                   THEN textOf(resp) ELSE <<>>])
  /\ CASE refinementOutcome(resp) = "written" -> promptOptimized(resp)
       [] refinementOutcome(resp) = "status" ->
            optimizationFailed(
              <<"Gagal mengoptimalkan prompt. Status: ", ToString(resp.status),
                ". Detail: ">> \o substring0(resp.errorText, DetailLength) \o <<"...">>)
       [] refinementOutcome(resp) = "unexpected" ->
            optimizationFailed(
              <<"Failed to generate English prompt. Unexpected API response.">>)
       [] OTHER ->
            optimizationFailed(<<"Error optimizing prompt. Please try again.">>)
  /\ isLoadingPrompt' = FALSE
  /\ UNCHANGED <<formVars, savedCharacters, actionVars, sceneVars, spokenVars,
                 indonesianPrompt, loadingVars, issued, now>>

(***************************************************************************)
(* SpecService: the three calls of the generation service (the two         *)
(* suggestions and the refinement of the composed prompt), the edits of    *)
(* the spoken entry and resetForm, from a store in which every field that  *)
(* resetForm clears holds something.  SpecServiceFair adds that a call in  *)
(* flight returns: the promise of fetch settles and its continuation runs. *)
(***************************************************************************)
InitService ==
  /\ characterName = <<"Naga">> /\ characterType = "fantasy"
  /\ humanDetails = [emptyHuman EXCEPT !.gender = <<"Female">>]
  /\ animal4Details = [emptyAnimal4 EXCEPT !.animalType = <<"Cat">>]
  /\ animal2Details = [emptyAnimal2 EXCEPT !.age = <<toddler>>]
  /\ fantasyDetails = <<"Naga Bersisik">>
  /\ Idle /\ now = 3
  /\ savedCharacters = <<AriaFemale, Bruno>>
  /\ selectedCharactersForActions = <<"1">>
  /\ characterActions = <<characterAction("1", <<"Berlari">>, TRUE, <<>>)>>
  /\ expressions = [k \in {"2"} |-> <<"Happy">>]
  /\ spokenDialogue = <<1>>
  /\ dialogueObjects =
       [ref \in {1} |-> spokenEntry("1", "Ask a question", <<"Apa kabar?">>, "2")]
  /\ location = <<"Hutan">> /\ timeOfDay = <<"Morning">> /\ cameraMotion = "Zoom In"
  /\ lighting = <<"Soft lighting">> /\ selectedVisualStyles = <<"Anime">>
  /\ videoMood = <<"Cozy">> /\ soundMusic = <<"Piano">>
  /\ additionalDetails = <<"Tanpa teks">>

ServiceResponses ==
  {networkError, statusError(500, <<"Internal error">>), noCandidates, noText,
   success(<<"Hai">>)}

ServiceSpokenInputs ==
  {<<"charId", "1">>, <<"charId", "2">>, <<"type", "">>, <<"type", "Ask a question">>,
   <<"targetCharId", "2">>}

ResolveCharacterAction ==
  \E q \in pending, resp \in ServiceResponses : resolveCharacterAction(q, resp)
ResolveDialogueSentence ==
  \E q \in pending, resp \in ServiceResponses : resolveDialogueSentence(q, resp)
ResolveMaximizeEnglishPrompt ==
  \E q \in pending, resp \in ServiceResponses : resolveMaximizeEnglishPrompt(q, resp)

NextService ==
  \/ \E input \in ServiceSpokenInputs :
        handleSpokenDialogueChange(1, input[1], input[2])
  \/ generatePrompt
  \/ \E charId \in SuggestCharIds : suggestCharacterAction(charId)
  \/ ResolveCharacterAction
  \/ suggestDialogueSentence(1)
  \/ ResolveDialogueSentence
  \/ maximizeButton
  \/ ResolveMaximizeEnglishPrompt
  \/ resetForm

SpecService == InitService /\ [][NextService]_vars

SpecServiceFair ==
  /\ SpecService
  /\ WF_vars(ResolveCharacterAction)
  /\ WF_vars(ResolveDialogueSentence)
  /\ WF_vars(ResolveMaximizeEnglishPrompt)

(***************************************************************************)
(* C11  A response with status ok whose body has another shape than the    *)
(* success shape (no candidates, no content, no parts, or a first part     *)
(* without text) is a failure for the two suggestions and for the          *)
(* refinement: the field of the call keeps its value and a failure message *)
(* is shown.                                                               *)
(***************************************************************************)
OtherShape(resp) ==
  /\ resp.fetch = "response" /\ resp.ok /\ resp.candidates # "throw"
  /\ ~expectedShape(resp) \/ ~resp.hasText

FailureShown(openings) ==
  /\ showModal'
  /\ modalMessage' # <<>> /\ modalMessage'[1] \in openings

RefinementFailureOpenings ==
  {"Gagal mengoptimalkan prompt. Status: ",
   "Failed to generate English prompt. Unexpected API response.",
   "Error optimizing prompt. Please try again."}

C11_OtherShapeIsFailure ==
  [][\A q \in pending, resp \in ServiceResponses :
        OtherShape(resp) =>
          /\ resolveCharacterAction(q, resp)
               => /\ characterActions' = characterActions
                  /\ FailureShown({"Gagal menyarankan aksi. Respon API tidak terduga.",
                                   "Terjadi kesalahan saat menyarankan aksi. Coba lagi."})
          /\ resolveDialogueSentence(q, resp)
               => /\ Store'.spokenDialogue = Store.spokenDialogue
                  /\ FailureShown({"Gagal menyarankan dialog. Respon API tidak terduga.",
                                   "Terjadi kesalahan saat menyarankan dialog. Coba lagi."})
          /\ resolveMaximizeEnglishPrompt(q, resp)
               => /\ englishPrompt' = englishPrompt
                  /\ FailureShown(RefinementFailureOpenings)]_vars

(***************************************************************************)
(* C12  A refinement that returns with a non-success status or by an       *)
(* exception leaves englishPrompt as it was and shows a failure message; a *)
(* refinement that returns the text of a success response makes that text  *)
(* the whole of englishPrompt.                                             *)
(***************************************************************************)
C12_RefinementResult ==
  [][\A q \in pending, resp \in ServiceResponses :
        resolveMaximizeEnglishPrompt(q, resp) =>
          /\ refinementOutcome(resp) \in {"status", "catch"}
               => /\ englishPrompt' = englishPrompt
                  /\ FailureShown(RefinementFailureOpenings)
          /\ (refinementOutcome(resp) = "written" /\ resp.hasText)
               => englishPrompt' = resp.text]_vars

\* A first refinement wrote "Hai"; a second one failed with status 500 and
\* "Hai" is still there.
C12_Witness ==
  /\ Len(resolved) = 2
  /\ resolved[1] = [seq |-> 1, written |-> TRUE, text |-> <<"Hai">>]
  /\ ~resolved[2].written
  /\ \A q \in pending : FALSE
  /\ englishPrompt = <<"Hai">>
  /\ showModal /\ modalMessage[1] = "Gagal mengoptimalkan prompt. Status: "

(***************************************************************************)
(* C13  At most one refinement is in flight: while one is in flight        *)
(* isLoadingPrompt is true, and no refinement is started while             *)
(* isLoadingPrompt is true.                                                *)
(***************************************************************************)
Refinements == {q \in pending : q.op = "refine"}

C13_SingleRefinementInFlight ==
  /\ Cardinality(Refinements) <= 1
  /\ Refinements # {} => isLoadingPrompt

\* A second refinement was started after the first returned with "Hai", and
\* is the only call in flight.
C13_Witness ==
  /\ Cardinality(Refinements) = 1 /\ pending = Refinements
  /\ \A q \in Refinements : q.seq = 2
  /\ resolved = <<[seq |-> 1, written |-> TRUE, text |-> <<"Hai">>]>>
  /\ englishPrompt = <<"Hai">>
  /\ isLoadingPrompt

(***************************************************************************)
(* C20  resetForm leaves the characters, the selection, the character      *)
(* actions, the expressions, every scene attribute, the visual styles, the *)
(* spoken dialogue, the additional details, the fields of the character    *)
(* form and the two prompts empty.                                         *)
(***************************************************************************)
C20_ResetClearsEverything ==
  [][resetForm =>
       /\ EmptyForm' /\ EmptyScene'
       /\ savedCharacters' = <<>>
       /\ selectedCharactersForActions' = <<>> /\ characterActions' = <<>>
       /\ expressions' = emptyMap
       /\ spokenDialogue' = <<>> /\ Store'.spokenDialogue = <<>>
       /\ indonesianPrompt' = <<>> /\ englishPrompt' = <<>>]_vars

\* The form was reset after a refinement had written "Hai" and while a
\* second one was in flight: the two prompts held something, and nothing
\* holds anything now.
C20_Witness ==
  /\ showModal /\ modalMessage = <<"Form reset successfully!">>
  /\ resolved = <<[seq |-> 1, written |-> TRUE, text |-> <<"Hai">>]>>
  /\ Cardinality(Refinements) = 1 /\ issued = 2
  /\ characterActions = <<>> /\ spokenDialogue = <<>>
  /\ savedCharacters = <<>> /\ EmptyScene /\ EmptyForm
  /\ indonesianPrompt = <<>> /\ englishPrompt = <<>>

(***************************************************************************)
(* C14  A loading flag is true only while a call for its key is in flight, *)
(* and a flag that is true is cleared later: every call that set its flag  *)
(* clears it when it returns, whatever the response, and a call turned     *)
(* down before the request (unknown character, missing speaker or type)    *)
(* clears it at once.                                                      *)
(***************************************************************************)
ActionInFlight(charId) == \E q \in pending : q.op = "action" /\ q.charId = charId
SentenceInFlight(index) == \E q \in pending : q.op = "dialogue" /\ q.index = index

C14_LoadingFlagsCleared ==
  /\ [](/\ \A charId \in CharIds :
             isLoading(isLoadingActionSuggestion, charId) => ActionInFlight(charId)
        /\ \A index \in 1..MaxSpoken :
             isLoading(isLoadingDialogueSuggestion, index) => SentenceInFlight(index)
        /\ isLoadingPrompt => Refinements # {})
  /\ \A charId \in CharIds :
        isLoading(isLoadingActionSuggestion, charId)
          ~> ~isLoading(isLoadingActionSuggestion, charId)
  /\ \A index \in 1..MaxSpoken :
        isLoading(isLoadingDialogueSuggestion, index)
          ~> ~isLoading(isLoadingDialogueSuggestion, index)
  /\ isLoadingPrompt ~> ~isLoadingPrompt

\* A suggestion of an action has failed, a suggestion of a sentence was
\* turned down for its missing type, a refinement has returned its text:
\* nothing is in flight and the three flags, all set once, are cleared.
C14_Witness ==
  /\ pending = {} /\ issued = 2
  /\ Len(resolved) = 2 /\ ~resolved[1].written /\ resolved[2].written
  /\ englishPrompt = <<"Hai">>
  /\ "1" \in DOMAIN isLoadingActionSuggestion
  /\ ~isLoadingActionSuggestion["1"]
  /\ 1 \in DOMAIN isLoadingDialogueSuggestion
  /\ ~isLoadingDialogueSuggestion[1]
  /\ ~isLoadingPrompt
  /\ showModal
  /\ modalMessage = <<"Pilih karakter dan jenis dialog terlebih dahulu.">>

(***************************************************************************)
(* C15  No entry of the spoken dialogue and no dialogue line of a          *)
(* character action has a targetCharId that is not empty and equals the    *)
(* charId of its own speaker.                                              *)
(***************************************************************************)
C15_TargetDiffersFromSpeaker ==
  /\ \A k \in 1..Len(spokenDialogue) :
        LET sd == Store.spokenDialogue[k]
        IN  sd.targetCharId # "" => sd.targetCharId # sd.charId
  /\ \A k \in 1..Len(characterActions) :
        \A j \in 1..Len(characterActions[k].dialogueLines) :
           LET targetCharId == characterActions[k].dialogueLines[j].targetCharId
           IN  targetCharId # "" => targetCharId # characterActions[k].charId

(***************************************************************************)
(* SpecActions: every operation that writes characterActions (the check    *)
(* box, the action field, the main character toggle, the added dialogue    *)
(* line, the write-back of a suggested action), for the two saved          *)
(* characters.                                                             *)
(***************************************************************************)
ActionResponses == {networkError, success(<<"Hai">>)}

NextActions ==
  \/ \E charId \in CharIds : selectCharacterForActions(charId)
  \/ \E charId \in ActionCharIds, value \in ActionInputs :
        handleCharacterActionChange(charId, "action", value)
  \/ \E charId \in CharIds : handleToggleMainCharacter(charId)
  \/ \E charId \in CharIds : handleAddDialogueLine(charId)
  \/ \E charId \in CharIds : suggestCharacterAction(charId)
  \/ \E q \in pending, resp \in ActionResponses : resolveCharacterAction(q, resp)

SpecActions == InitStored /\ [][NextActions]_vars

(***************************************************************************)
(* C18  characterActions never holds two entries with the same charId.     *)
(***************************************************************************)
C18_OneEntryPerCharacter ==
  \A i, j \in 1..Len(characterActions) :
     characterActions[i].charId = characterActions[j].charId => i = j

\* The entry of Aria was written by two suggestions, toggled and given a
\* dialogue line, beside the entry of Bruno: there are two entries.
C18_Witness ==
  /\ Len(characterActions) = 2
  /\ Len(resolved) = 2 /\ resolved[1].written /\ resolved[2].written
  /\ isLoadingActionSuggestion = [k \in {"1"} |-> FALSE]
  /\ currentAction("1").action = <<"Hai">>
  /\ currentAction("1").isMain
  /\ Len(currentAction("1").dialogueLines) = 1
  /\ findIndex(characterActions, "2") > 0

(***************************************************************************)
(* SpecScene: the check boxes of the visual styles (1396-1436) and three   *)
(* of the scene inputs, from the store with Aria and Bruno saved.          *)
(***************************************************************************)
VisualStyleInputs == {"2D", "Anime", "Pixar Style"}
LocationInputs == {<<>>, <<"Hutan">>}
LightingInputs == {<<>>, <<"Soft lighting">>}
VideoMoodInputs == {<<>>, <<"Cozy">>}

NextScene ==
  \/ \E style \in VisualStyleInputs : handleVisualStyleChange(style)
  \/ \E value \in LocationInputs : setLocation(value)
  \/ \E value \in LightingInputs : setLighting(value)
  \/ \E value \in VideoMoodInputs : setVideoMood(value)

SpecScene == InitStored /\ [][NextScene]_vars

(***************************************************************************)
(* C21  handleVisualStyleChange(style) is symmetric-difference membership: *)
(* in every reachable state the array of selected styles holds no style    *)
(* twice, and for every style the updater applied to it adds the style if  *)
(* it is absent and removes it if it is present, holds no style twice,     *)
(* keeps the membership of every other style, and applied a second time    *)
(* with the same style gives back the original set of selected styles.     *)
(***************************************************************************)
Members(styles) == {styles[i] : i \in 1..Len(styles)}
NoDuplicate(styles) == \A i, j \in 1..Len(styles) : styles[i] = styles[j] => i = j

C21_ToggleIsSymmetricDifference ==
  /\ NoDuplicate(selectedVisualStyles)
  /\ \A style \in VisualStyleInputs :
       LET once == visualStyleChange(selectedVisualStyles, style)
           twice == visualStyleChange(once, style)
       IN  /\ style \in Members(once) <=> style \notin Members(selectedVisualStyles)
           /\ NoDuplicate(once)
           /\ Members(once) \ {style} = Members(selectedVisualStyles) \ {style}
           /\ Members(twice) = Members(selectedVisualStyles)
           /\ NoDuplicate(twice)

\* Two styles were ticked and a third was not: the updater is evaluated on
\* an array where it removes (either of the two) and where it adds.
C21_Witness ==
  /\ selectedVisualStyles = <<"Anime", "2D">>
  /\ location = <<"Hutan">>

(***************************************************************************)
(* C22  In every reachable state, handleCharacterActionChange(charId,      *)
(* 'action', value) on a charId without an entry appends the entry         *)
(* {charId, action: value, isMain: false, dialogueLines: []} after the     *)
(* entries that are there, and on a charId with an entry changes the       *)
(* action of that entry and nothing else of it; in both cases every other  *)
(* entry and the order of the entries are what they were.                  *)
(***************************************************************************)
ActionValues == ActionInputs \cup {<<>>, <<"Melompat">>}

C22_ActionChangeFrame ==
  \A charId \in CharIds, value \in ActionValues :
     LET next == characterActionChange(characterActions, charId, "action", value)
         k == findIndex(characterActions, charId)
     IN  IF k = 0
         THEN /\ Len(next) = Len(characterActions) + 1
              /\ SubSeq(next, 1, Len(characterActions)) = characterActions
              /\ next[Len(next)] = [charId |-> charId, action |-> value, isMain |-> FALSE,
                                    dialogueLines |-> <<>>]
         ELSE /\ Len(next) = Len(characterActions)
              /\ \A i \in 1..Len(next) : i # k => next[i] = characterActions[i]
              /\ next[k].charId = charId
              /\ next[k].action = value
              /\ next[k].isMain = characterActions[k].isMain
              /\ next[k].dialogueLines = characterActions[k].dialogueLines

\* The entry of Aria was appended by the action field after the entry of
\* Bruno, then made main and given a dialogue line: the updater is evaluated
\* on an entry that is there and holds more than its action.
C22_Witness ==
  /\ Len(characterActions) = 2
  /\ characterActions[1].charId = "2"
  /\ characterActions[2] = [charId |-> "1", action |-> <<"Berlari">>, isMain |-> TRUE,
                            dialogueLines |-> <<newLine>>]
  /\ resolved = <<>>

(***************************************************************************)
(* SpecLines: the action field, the expression select and the dialogue     *)
(* lines of a character panel (1215, 1247-1291, 1314), from the store with *)
(* Aria and Bruno saved.  The type select of a line offers the empty       *)
(* choice and the three types (1254-1257).                                 *)
(***************************************************************************)
ExpressionInputs == {<<>>, <<"Happy">>}
LineTypeInputs ==
  {<<"type", "">>, <<"type", "Ask a question">>, <<"type", "Give an answer">>,
   <<"type", "Berbicara ke Audiens">>, <<"sentence", <<"Halo">>>>, <<"sentence", <<>>>>}

NextLines ==
  \/ \E charId \in CharIds : selectCharacterForActions(charId)
  \/ \E charId \in ActionCharIds, value \in ActionInputs :
        handleCharacterActionChange(charId, "action", value)
  \/ \E charId \in LineCharIds, value \in ExpressionInputs : setExpression(charId, value)
  \/ \E charId \in LineCharIds : handleAddDialogueLine(charId)
  \/ \E charId \in LineCharIds, lineIndex \in 1..MaxLines, input \in LineTypeInputs :
        handleDialogueLineChange(charId, lineIndex, input[1], input[2])
  \/ \E charId \in LineCharIds, lineIndex \in 1..MaxLines :
        handleRemoveDialogueLine(charId, lineIndex)

SpecLines == InitStored /\ [][NextLines]_vars

(***************************************************************************)
(* C23  For every entry of characterActions whose character is saved, the  *)
(* composed text holds one action sentence "<name> sedang <action>", which *)
(* carries the suffix " dengan ekspresi <expression>" exactly when the     *)
(* expression of that character is set (not empty); and every dialogue     *)
(* line of the entry with a sentence that is not empty gives one sentence  *)
(* quoting it, tagged "bertanya" exactly when its type is "Ask a question" *)
(* and "menjawab" for every other type, "Berbicara ke Audiens" and the     *)
(* empty type included.                                                    *)
(***************************************************************************)
C23_ActionAndLineSentences ==
  LET prompt == composedArray
  IN  \A k \in 1..Len(characterActions) :
         LET ca == characterActions[k]
             character == find(savedCharacters, ca.charId)
             expression == expressionOf(Store, ca.charId)
         IN  character # <<>> =>
               /\ Cardinality(SentencesOf(prompt, "action", <<k>>)) = 1
               /\ \A i \in SentencesOf(prompt, "action", <<k>>) :
                     /\ SubSeq(prompt[i].text, 1, Len(character[1].name) + 1)
                          = character[1].name \o <<" sedang ">>
                     /\ Contains(prompt[i].text, <<" dengan ekspresi ">>) <=> expression # <<>>
                     /\ expression # <<>> =>
                          Contains(prompt[i].text,
                                   <<" dengan ekspresi ">> \o toLowerCase(expression) \o <<".">>)
                     /\ Contains(composed, prompt[i].text)
               /\ \A j \in 1..Len(ca.dialogueLines) :
                     LET line == ca.dialogueLines[j]
                         tag == IF line.type = "Ask a question" THEN "bertanya" ELSE "menjawab"
                     IN  line.sentence # <<>> =>
                           /\ Cardinality(SentencesOf(prompt, "line", <<k, j>>)) = 1
                           /\ \A i \in SentencesOf(prompt, "line", <<k, j>>) :
                                 /\ prompt[i].text
                                      = character[1].name \o <<" ", tag, ": \"">>
                                          \o line.sentence \o <<"\"">>
                                 /\ Contains(composed, prompt[i].text)

\* Bruno has an expression and a line addressed to the audience, Aria an
\* action and no expression: the line of Bruno is tagged as an answer.
C23_Witness ==
  /\ Len(characterActions) = 2
  /\ currentAction("1").action = <<"Berlari">>
  /\ expressionOf(Store, "1") = <<>>
  /\ expressionOf(Store, "2") = <<"Happy">>
  /\ currentAction("2").dialogueLines
       = <<[type |-> "Berbicara ke Audiens", sentence |-> <<"Halo">>, targetCharId |-> ""]>>
  /\ Contains(composed, <<"Bruno", " sedang ", " dengan ekspresi ", "happy", ".">>)
  /\ Contains(composed, <<"Bruno", " ", "menjawab", ": \"", "Halo", "\"">>)
  /\ Contains(composed, <<"Aria", " sedang ", "berlari", ".">>)

(***************************************************************************)
(* C24  A step of suggestCharacterAction for a charId that names no saved  *)
(* character, and a step of suggestDialogueSentence for an entry whose     *)
(* speaker is not a saved character or whose type is empty, starts no      *)
(* service call, shows a message, and leaves the store (characters,        *)
(* actions, expressions, scene attributes, spoken dialogue, additional     *)
(* details) as it is.                                                      *)
(***************************************************************************)
Refused(message) ==
  /\ pending' = pending /\ issued' = issued /\ resolved' = resolved
  /\ showModal' /\ modalMessage' = message
  /\ Store' = Store
  /\ selectedCharactersForActions' = selectedCharactersForActions

C24_RefusedSuggestion ==
  [][/\ \A charId \in SuggestCharIds :
          (find(savedCharacters, charId) = <<>> /\ suggestCharacterAction(charId))
            => Refused(<<"Karakter tidak ditemukan.">>)
     /\ \A index \in 1..Len(spokenDialogue) :
          LET dialogue == dialogueObjects[spokenDialogue[index]]
          IN  ((find(savedCharacters, dialogue.charId) = <<>> \/ dialogue.type = "")
                 /\ suggestDialogueSentence(index))
                => Refused(<<"Pilih karakter dan jenis dialog terlebih dahulu.">>)]_vars

\* A sentence was asked for an entry without speaker, then, the store
\* emptied, an action for the character that is no longer saved: both were
\* turned down and no call was ever started.
C24_Witness ==
  /\ savedCharacters = <<>>
  /\ isLoadingDialogueSuggestion = [k \in {1} |-> FALSE]
  /\ isLoadingActionSuggestion = [k \in {"1"} |-> FALSE]
  /\ showModal /\ modalMessage = <<"Karakter tidak ditemukan.">>
  /\ issued = 0 /\ pending = {}

(***************************************************************************)
(* C25  The step in which a suggestDialogueSentence call writes its        *)
(* sentence back changes the sentence of the entry at the index of the     *)
(* call and nothing else of the spoken dialogue: the array holds the       *)
(* entries it held before the step (those added while the call was in      *)
(* flight still there, those removed still gone), and every field but      *)
(* that sentence is what it was.                                           *)
(***************************************************************************)
C25_WriteBackKeepsOtherEntries ==
  [][\A q \in pending, resp \in Responses :
        (outcome(resp) = "written" /\ resolveDialogueSentence(q, resp))
          => LET before == Store.spokenDialogue
                 after == Store'.spokenDialogue
             IN  /\ Len(after) = Len(before)
                 /\ \A i \in 1..Len(before) :
                       IF i = q.index
                       THEN after[i] = [before[i] EXCEPT !.sentence = after[i].sentence]
                       ELSE after[i] = before[i]]_vars

(***************************************************************************)
(* SpecSelection: the check boxes that select a character for actions, the *)
(* action field and the suggest button of a panel (1218-1222, rendered     *)
(* for a selected character only), the responses of the service and the    *)
(* reset, from the store with Aria and Bruno saved.                        *)
(***************************************************************************)
suggestActionButton(charId) ==
  /\ HasPanel(charId)
  /\ suggestCharacterAction(charId)

NextSelection ==
  \/ \E charId \in CharIds : selectCharacterForActions(charId)
  \/ \E charId \in CharIds, value \in ActionInputs :
        handleCharacterActionChange(charId, "action", value)
  \/ \E charId \in CharIds : suggestActionButton(charId)
  \/ \E q \in pending, resp \in ActionResponses : resolveCharacterAction(q, resp)
  \/ resetForm

SpecSelection == InitStored /\ [][NextSelection]_vars

(***************************************************************************)
(* C26  In every reachable state every entry of characterActions has the   *)
(* id of a character that is selected for actions: the entry removed when  *)
(* the character is deselected, or by a reset, does not come back when a   *)
(* suggested action arrives afterwards.                                    *)
(***************************************************************************)
C26_ActionsOfSelectedCharacters ==
  \A k \in 1..Len(characterActions) :
     \E i \in 1..Len(selectedCharactersForActions) :
        selectedCharactersForActions[i] = characterActions[k].charId

C28_SpokenLineQuotesSentence ==
  LET prompt == composedArray
      spoken == Store.spokenDialogue
  IN  /\ \A i \in 1..Len(prompt) :
            prompt[i].step = "spoken" =>
              Contains(prompt[i].text, spoken[prompt[i].src[1]].sentence \o <<"\"">>)
      /\ \A k \in 1..Len(spoken) : Cardinality(SentencesOf(prompt, "spoken", <<k>>)) <= 1

(***************************************************************************)
(* The updaters of the dialogue lines as they are written (574-609): they  *)
(* copy the array of entries ([...prevActions]) but push into, assign into *)
(* and splice the dialogueLines array of the entry object they found,      *)
(* which the previous state holds as well.  Each operator gives the array  *)
(* the updater returns and the previous array as the call leaves it.  An   *)
(* updater that finds no entry builds a new one and touches nothing.       *)
(***************************************************************************)
addDialogueLineInPlace(prevActions, charId) ==
  [returned |-> addDialogueLine(prevActions, charId),
   prevActions |-> IF findIndex(prevActions, charId) > 0
                   THEN addDialogueLine(prevActions, charId)
                   ELSE prevActions]

dialogueLineChangeInPlace(prevActions, charId, lineIndex, field, value) ==
  [returned |-> dialogueLineChange(prevActions, charId, lineIndex, field, value),
   prevActions |-> dialogueLineChange(prevActions, charId, lineIndex, field, value)]

removeDialogueLineInPlace(prevActions, charId, lineIndex) ==
  [returned |-> removeDialogueLine(prevActions, charId, lineIndex),
   prevActions |-> removeDialogueLine(prevActions, charId, lineIndex)]

\* The root is rendered inside <React.StrictMode> (index.js 7-11): the
\* production build calls an updater once, the development build calls it
\* twice on the same previous state and keeps the second result.
Invocations == {1, 2}

addDialogueLineInvoked(prevActions, charId, invocations) ==
  IF invocations = 1
  THEN addDialogueLineInPlace(prevActions, charId).returned
  ELSE addDialogueLineInPlace(addDialogueLineInPlace(prevActions, charId).prevActions,
                              charId).returned

dialogueLineChangeInvoked(prevActions, charId, lineIndex, field, value, invocations) ==
  LET first == dialogueLineChangeInPlace(prevActions, charId, lineIndex, field, value)
  IN  IF invocations = 1
      THEN first.returned
      ELSE dialogueLineChangeInPlace(first.prevActions, charId, lineIndex, field,
                                     value).returned

removeDialogueLineInvoked(prevActions, charId, lineIndex, invocations) ==
  LET first == removeDialogueLineInPlace(prevActions, charId, lineIndex)
  IN  IF invocations = 1
      THEN first.returned
      ELSE removeDialogueLineInPlace(first.prevActions, charId, lineIndex).returned

handleAddDialogueLineInvoked(charId, invocations) ==
  /\ HasPanel(charId)
  /\ Len(currentAction(charId).dialogueLines) < MaxLines
  /\ characterActions' =
       addDialogueLineInvoked(characterActions, charId, invocations)
  /\ UNCHANGED <<selectedCharactersForActions, expressions>>
  /\ actionFrame

handleDialogueLineChangeInvoked(charId, lineIndex, field, value, invocations) ==
  /\ HasPanel(charId)
  /\ lineIndex \in 1..Len(currentAction(charId).dialogueLines)
  /\ field = "targetCharId" =>
       /\ currentAction(charId).dialogueLines[lineIndex].type
            \in {"Ask a question", "Give an answer"}
       /\ value \in {""} \cup (idsOf(savedCharacters) \ {charId})
  /\ characterActions' =
       dialogueLineChangeInvoked(characterActions, charId, lineIndex, field, value,
                                 invocations)
  /\ UNCHANGED <<selectedCharactersForActions, expressions>>
  /\ actionFrame

handleRemoveDialogueLineInvoked(charId, lineIndex, invocations) ==
  /\ HasPanel(charId)
  /\ lineIndex \in 1..Len(currentAction(charId).dialogueLines)
  /\ characterActions' =
       removeDialogueLineInvoked(characterActions, charId, lineIndex, invocations)
  /\ UNCHANGED <<selectedCharactersForActions, expressions>>
  /\ actionFrame

(***************************************************************************)
(* SpecStrictMode: the panels of the characters (check box, main           *)
(* character toggle, dialogue lines) in either build, from the store with  *)
(* Aria and Bruno saved.                                                   *)
(***************************************************************************)
StrictLineInputs == {<<"type", "Ask a question">>, <<"sentence", <<"Halo">>>>}

NextStrictMode ==
  \/ \E charId \in CharIds : selectCharacterForActions(charId)
  \/ \E charId \in CharIds : handleToggleMainCharacter(charId)
  \/ \E charId \in CharIds, invocations \in Invocations :
        handleAddDialogueLineInvoked(charId, invocations)
  \/ \E charId \in CharIds, lineIndex \in 1..(MaxLines + 1), input \in StrictLineInputs,
        invocations \in Invocations :
        handleDialogueLineChangeInvoked(charId, lineIndex, input[1], input[2], invocations)
  \/ \E charId \in CharIds, lineIndex \in 1..(MaxLines + 1),
        invocations \in Invocations :
        handleRemoveDialogueLineInvoked(charId, lineIndex, invocations)

SpecStrictMode == InitStored /\ [][NextStrictMode]_vars

(***************************************************************************)
(* C29  The updaters of handleAddDialogueLine, handleDialogueLineChange    *)
(* and handleRemoveDialogueLine are pure: in every reachable state each of *)
(* them leaves the previous characterActions, nested dialogueLines         *)
(* included, as it was; a second application to the same previous state    *)
(* returns what the first returned; and the array returned holds exactly   *)
(* one dialogue line more after an add and exactly one less after a        *)
(* remove.                                                                 *)
(***************************************************************************)
LinesOf(actions, charId) ==
  IF findIndex(actions, charId) > 0
  THEN Len(actions[findIndex(actions, charId)].dialogueLines)
  ELSE 0

C29_LineUpdatersArePure ==
  \A charId \in CharIds :
     LET add == addDialogueLineInPlace(characterActions, charId)
         lines == LinesOf(characterActions, charId)
     IN  /\ add.prevActions = characterActions
         /\ addDialogueLineInPlace(add.prevActions, charId).returned = add.returned
         /\ \A invocations \in Invocations :
               LinesOf(addDialogueLineInvoked(characterActions, charId, invocations),
                       charId) = lines + 1
         /\ \A lineIndex \in 1..lines :
               LET remove == removeDialogueLineInPlace(characterActions, charId, lineIndex)
                   change == dialogueLineChangeInPlace(characterActions, charId, lineIndex,
                                                       "sentence", <<"Halo">>)
               IN  /\ remove.prevActions = characterActions
                   /\ removeDialogueLineInPlace(remove.prevActions, charId, lineIndex).returned
                        = remove.returned
                   /\ \A invocations \in Invocations :
                         LinesOf(removeDialogueLineInvoked(characterActions, charId,
                                                           lineIndex, invocations),
                                 charId) = lines - 1
                   /\ change.prevActions = characterActions
                   /\ dialogueLineChangeInPlace(change.prevActions, charId, lineIndex,
                                                "sentence", <<"Halo">>).returned
                        = change.returned

(***************************************************************************)
(* C30  In every reachable state, for every character that has a panel,    *)
(* the text composed from the store after handleToggleMainCharacter was    *)
(* applied twice to it is the text composed from the store as it is, also  *)
(* when the character has no entry in characterActions.                    *)
(***************************************************************************)
C30_ToggleTwiceKeepsComposedText ==
  \A charId \in CharIds :
     HasPanel(charId) =>
       LET twice == toggleMainCharacter(toggleMainCharacter(characterActions, charId), charId)
       IN  generateIndonesianPromptText([Store EXCEPT !.characterActions = twice],
                                        animal2Details)
             = composed
====
